---- MODULE Spec2Model ----
(***************************************************************************)
(* Model of the embedding-backed indexing and retrieval engine:            *)
(*   VectorStore       (src/services/vector-store.js)                      *)
(*   EmbeddingService  (src/unnamed/part_003)                              *)
(*   FileAgent         (src/unnamed/part_002)                              *)
(* JavaScript runs one callback at a time: an async method runs without    *)
(* interruption up to its first await, and every await is a point where    *)
(* other callers may run.  Each action below is one such uninterrupted     *)
(* stretch of code.                                                        *)
(***************************************************************************)
EXTENDS Integers, Sequences, FiniteSets, TLC

(***************************************************************************)
(* Bounds of the model                                                     *)
(***************************************************************************)
MaxPending == 1      \* store calls that may be suspended at an await at one time
MaxRecords == 3      \* records in the store that findSimilar is run against
MaxLimit == 2        \* largest limit passed to findSimilar
MaxTexts == 3        \* longest list passed to generateBatchEmbeddings
MaxBatchSize == 2    \* largest configured batchSize of the embedding service
MaxReaders == 2      \* readFile calls that may be suspended at their fetch at one time
MaxTicks == 3        \* times the clock moves in a run of the file cache
MaxFiles == 3        \* longest file list the path resolver returns
batchSize == 2       \* FileAgent.indexFiles: batchSize (10 in the source), scaled to the file lists
maxTextLength == 3   \* EmbeddingService.maxTextLength (8192 in the source), scaled to the texts below

NULL == -1           \* JavaScript null (VectorStore.dimensions before the first insert)

Ids == {"a", "b"}                              \* ids offered to the concurrent callers
IdInputs == Ids \cup {""}                      \* "" is the invalid (empty) id
IdNames == <<"a", "b", "c", "d", "e">>
RecordIds == {IdNames[i] : i \in 1..MaxRecords}
Vals == {0, 1}
Dims == {1, 2}
Vectors == UNION {[1..n -> Vals] : n \in Dims}
VectorInputs == Vectors \cup {<<>>}            \* <<>> is the empty array
MaxCoordinates == 2                            \* longest vector given to _calculateCosineSimilarity alone
Coordinates == {-1, 0, 1, 2}
CosineInputs == UNION {[1..n -> Coordinates] : n \in 0..MaxCoordinates}
Metas == {"m1", "m2"}
Limits == 0..MaxLimit
\* A similarity or a threshold is the real number num / sqrt(den), den > 0.
Thresholds == {[num |-> 0, den |-> 1], [num |-> 1, den |-> 4],
               [num |-> 4, den |-> 25], [num |-> 1, den |-> 1]}

\* A text is the sequence of its characters.
IsSpace(ch) == ch \in {" ", "\n"}
SampleTexts == {<<"a">>, <<" ", "b", "\n">>, <<"a", " ", "\n", "b">>}
BlankText == <<" ", "\n">>                     \* a string of whitespace only
TextInputs == SampleTexts \cup {BlankText, <<>>}  \* <<>> is the empty string
MaxStringLen == 5                              \* longest string given to _preprocessText alone
Alphabet == {"a", "b", " ", "\n"}
Strings == UNION {[1..n -> Alphabet] : n \in 0..MaxStringLen}
TextLists == UNION {[1..n -> SampleTexts] : n \in 0..MaxTexts}
ProbeText == <<"t">>                           \* 'test connection'
Paths == {"p", "q"}                            \* paths read through readFile directly
PathNames == <<"p", "q", "r", "s", "t">>
AllPaths == {PathNames[i] : i \in 1..MaxFiles}  \* paths the path resolver may return
\* the resolver filters a listing of the file system and keeps its order
RECURSIVE Filter(_, _)
Filter(list, keep) ==
  IF list = <<>> THEN <<>>
  ELSE (IF Head(list) \in keep THEN <<Head(list)>> ELSE <<>>) \o Filter(Tail(list), keep)
FileLists == {Filter(SubSeq(PathNames, 1, MaxFiles), keep) : keep \in SUBSET AllPaths}
StoreOutcomes == {"ok", "error", "errorNoMessage"}  \* how storeMemory settles
Patterns == {"", "*"}                          \* "" is the missing pattern
\* the glob patterns of the model: a name, which its regex matches alone, and
\* "*", whose regex ^[^/\\]*$ matches every name without a separator
IgnorePatterns == {"p", "q"}
PathInputs == Paths \cup {""}                  \* "" is the missing path
Contents == {<<"a">>, <<"b">>}                 \* what the file reader may return
cacheTTL == 1800000                            \* FileAgent.cacheTTL, 30 minutes in ms
Jumps == {1, cacheTTL - 1}                     \* how far the clock moves at a time
\* the backend's embedding of a text
Emb(text) == <<"emb", text>>

VARIABLES
  initialized,   \* VectorStore.initialized
  dimensions,    \* VectorStore.dimensions (NULL until the first insert)
  vectors,       \* VectorStore.vectors: a Map, as the sequence of its entries in iteration order
  metadata,      \* VectorStore.metadata: a Map, likewise
  pend,          \* the store calls that are suspended at an await
  ret,           \* outcome of the call that has just settled, until its caller has taken it
  now,           \* Date.now()
  embInitialized,  \* EmbeddingService.initialized
  apiKey,          \* EmbeddingService.apiKey
  maxBatchSize,    \* EmbeddingService.maxBatchSize
  epc,             \* where the current call of the embedding service is suspended
  batchTexts,      \* generateBatchEmbeddings: texts
  batchI,          \* generateBatchEmbeddings: i
  batchResults,    \* generateBatchEmbeddings: results
  requests,        \* the requests the current call has sent to the backend
  eret,            \* outcome of the embedding call that has just settled
  textArg,         \* generateEmbedding: text, the argument of the current call
  normalized,      \* the result of _preprocessText applied to textArg, once or twice
  applied,         \* how many times _preprocessText has been applied
  fileCache,       \* FileAgent.fileCache: path -> entry
  rpend,           \* the readFile calls suspended at viewTool.execute
  rret,            \* outcome of the readFile call that has just settled
  ticks,           \* times the clock has moved
  embeddingService,  \* FileAgent.embeddingService is wired in
  memoryEngine,      \* FileAgent.memoryEngine is wired in
  ipc,             \* where the indexFiles run is suspended
  files,           \* indexFiles: files, the resolved list
  batchAt,         \* indexFiles: i, the start of the current batch
  results,         \* indexFiles: results, the report
  tasks,           \* per resolved file: its _indexSingleFile call
  stored,          \* keys the memory engine has stored
  iret,            \* outcome of the indexFiles run that has just settled
  resolution,      \* what the path resolver answered to the run: "none", "ok", "failed"
  settledOrder,    \* the calls of _indexSingleFile of the run, in the order they settled
  tpc,             \* where the current top-level call is suspended
  call,            \* the top-level call that is suspended
  tret,            \* how the top-level call that has just settled ended
  defaultIgnorePatterns,  \* GlobTool.defaultIgnorePatterns
  argA,            \* _calculateCosineSimilarity: vectorA of the call
  argB,            \* _calculateCosineSimilarity: vectorB of the call
  cosine           \* what the call returned (den = 0 before it returns)

storeVars == <<initialized, dimensions, vectors, metadata, pend, ret>>
embVars == <<embInitialized, apiKey, maxBatchSize, epc, batchTexts, batchI, batchResults,
             requests, eret, textArg, normalized, applied>>
cacheVars == <<fileCache, rpend, rret, ticks>>
indexVars == <<embeddingService, memoryEngine, ipc, files, batchAt, results, tasks, stored, iret,
               resolution, settledOrder>>
topVars == <<tpc, call, tret, defaultIgnorePatterns>>
cosVars == <<argA, argB, cosine>>
vars == <<initialized, dimensions, vectors, metadata, pend, ret, now,
          embInitialized, apiKey, maxBatchSize, epc, batchTexts, batchI, batchResults,
          requests, eret, textArg, normalized, applied, fileCache, rpend, rret, ticks,
          embeddingService, memoryEngine, ipc, files, batchAt, results, tasks, stored, iret,
          resolution, settledOrder, tpc, call, tret, defaultIgnorePatterns, argA, argB, cosine>>

(***************************************************************************)
(* JavaScript Map: insertion-ordered; set() of an existing key keeps the   *)
(* key's position, delete() removes the entry.                             *)
(***************************************************************************)
MapKeys(m) == {m[i].k : i \in 1..Len(m)}
MapHas(m, key) == key \in MapKeys(m)
MapIndex(m, key) == CHOOSE i \in 1..Len(m) : m[i].k = key
MapGet(m, key) == m[MapIndex(m, key)].v
\* set() that moves an existing key behind every other key
MapSet_MoveToEnd(m, key, val) ==
  Append(SelectSeq(m, LAMBDA e : e.k # key), [k |-> key, v |-> val])
\* set() that leaves the value of an existing key as it was
MapSet_KeepFirst(m, key, val) ==
  IF MapHas(m, key) THEN m ELSE Append(m, [k |-> key, v |-> val])
MapSet(m, key, val) ==
  IF MapHas(m, key)
  THEN [m EXCEPT ![MapIndex(m, key)] = [k |-> key, v |-> val]]
  ELSE Append(m, [k |-> key, v |-> val])
\* delete() that leaves the entry in place
MapDelete_Keep(m, key) == m
MapDelete(m, key) ==
  IF MapHas(m, key)
  THEN LET i == MapIndex(m, key)
       IN SubSeq(m, 1, i - 1) \o SubSeq(m, i + 1, Len(m))
  ELSE m

Min(a, b) == IF a < b THEN a ELSE b

(***************************************************************************)
(* VectorStore._calculateCosineSimilarity                                  *)
(***************************************************************************)
RECURSIVE SumProd(_, _, _)
SumProd(a, b, n) == IF n = 0 THEN 0 ELSE SumProd(a, b, n - 1) + a[n] * b[n]

\* the dot product returned as it is, not divided by the norms
_calculateCosineSimilarity_NotDivided(vectorA, vectorB) ==
  [num |-> SumProd(vectorA, vectorB, Min(Len(vectorA), Len(vectorB))), den |-> 1]
\* dot / (sqrt(normA) * sqrt(normB)) kept exactly as dot / sqrt(normA * normB)
_calculateCosineSimilarity(vectorA, vectorB) ==
  LET length == Min(Len(vectorA), Len(vectorB))
      dotProduct == SumProd(vectorA, vectorB, length)
      normA == SumProd(vectorA, vectorA, length)
      normB == SumProd(vectorB, vectorB, length)
  IN IF normA = 0 \/ normB = 0
     THEN [num |-> 0, den |-> 1]
     ELSE [num |-> dotProduct, den |-> normA * normB]

\* x >= y for x = x.num / sqrt(x.den), y = y.num / sqrt(y.den)
SimGE(x, y) ==
  IF x.num >= 0 /\ y.num <= 0 THEN TRUE
  ELSE IF x.num < 0 /\ y.num >= 0 THEN FALSE
  ELSE IF x.num >= 0 THEN x.num * x.num * y.den >= y.num * y.num * x.den
  ELSE x.num * x.num * y.den <= y.num * y.num * x.den
SimGT(x, y) == ~SimGE(y, x)
SimEQ(x, y) == SimGE(x, y) /\ SimGE(y, x)

(***************************************************************************)
(* VectorStore.findSimilar: scan, filter by threshold, stable sort, slice  *)
(***************************************************************************)
\* the comparator (a, b) => b.similarity - a.similarity, as its sign
\* the comparator with its operands swapped: a.similarity - b.similarity
CompareSimilarity_Ascending(a, b) ==
  IF SimGT(a.similarity, b.similarity) THEN 1
  ELSE IF SimGT(b.similarity, a.similarity) THEN -1
  ELSE 0
CompareSimilarity(a, b) ==
  IF SimGT(b.similarity, a.similarity) THEN 1
  ELSE IF SimGT(a.similarity, b.similarity) THEN -1
  ELSE 0

\* Array.prototype.sort is stable: an element stays behind every earlier
\* element the comparator does not order after it.
RECURSIVE SortInsert(_, _)
SortInsert(s, e) ==
  IF s = <<>> THEN <<e>>
  ELSE IF CompareSimilarity(Head(s), e) <= 0
       THEN <<Head(s)>> \o SortInsert(Tail(s), e)
       ELSE <<e>> \o s
RECURSIVE Sort(_)
Sort(s) ==
  IF s = <<>> THEN <<>>
  ELSE SortInsert(Sort(SubSeq(s, 1, Len(s) - 1)), s[Len(s)])

Slice(s, from, to) == SubSeq(s, from + 1, Min(to, Len(s)))

\* similarity > threshold in place of >=
AboveThreshold_Strict(similarity, threshold) == SimGT(similarity, threshold)
AboveThreshold(similarity, threshold) == SimGE(similarity, threshold)

MetadataOf(md, id) == IF MapHas(md, id) THEN MapGet(md, id) ELSE [empty |-> TRUE]

RECURSIVE Similarities(_, _, _, _, _)
Similarities(vs, md, queryVector, threshold, n) ==
  IF n = 0 THEN <<>>
  ELSE LET rest == Similarities(vs, md, queryVector, threshold, n - 1)
           similarity == _calculateCosineSimilarity(queryVector, vs[n].v)
       IN IF AboveThreshold(similarity, threshold)
          THEN Append(rest, [id |-> vs[n].k, similarity |-> similarity,
                             metadata |-> MetadataOf(md, vs[n].k)])
          ELSE rest

FindSimilarResult(vs, md, queryVector, limit, threshold) ==
  Slice(Sort(Similarities(vs, md, queryVector, threshold, Len(vs))), 0, limit)

RECURSIVE AllVectors(_, _, _)
AllVectors(vs, md, n) ==
  IF n = 0 THEN <<>>
  ELSE Append(AllVectors(vs, md, n - 1),
              [id |-> vs[n].k, vector |-> vs[n].v, metadata |-> MetadataOf(md, vs[n].k)])

(***************************************************************************)
(* VectorStore.storeVector helpers                                         *)
(***************************************************************************)
ValidId(id) == id # ""
ValidVector(vector) == Len(vector) # 0
\* the dimension taken from every vector that is stored
SetDimensions_EveryStore(dim, vector) == Len(vector)
SetDimensions(dim, vector) == IF dim = NULL THEN Len(vector) ELSE dim
\* the dimension check left out
DimensionMismatch_Never(dim, vector) == FALSE
DimensionMismatch(dim, vector) == Len(vector) # dim
\* the metadata insert not done before the await
StoreMetadata_Late(md, id, meta, t) == md
StoreMetadata(md, id, meta, t) == MapSet(md, id, [meta |-> meta, timestamp |-> t])

\* the guard if (!this.initialized) at the head of every store method
\* the guard left out
NotInitialized_Never(flag) == FALSE
NotInitialized(flag) == ~flag

None == [op |-> "none"]
Failure(op, error) == [op |-> op, success |-> FALSE, error |-> error]
Remove(s, i) == SubSeq(s, 1, i - 1) \o SubSeq(s, i + 1, Len(s))

\* the file agent, constructed and not used
NoEntry == [has |-> FALSE, content |-> <<>>, timestamp |-> 0]
NoReport == [totalFiles |-> 0, processedFiles |-> 0, failedFiles |-> 0, details |-> <<>>]
CacheIdle ==
  /\ fileCache = [p \in AllPaths |-> NoEntry] /\ rpend = <<>> /\ rret = None /\ ticks = 0
IndexIdle ==
  /\ ipc = "idle" /\ files = <<>> /\ batchAt = 0 /\ results = NoReport /\ tasks = <<>>
  /\ stored = {} /\ iret = None /\ resolution = "none" /\ settledOrder = <<>>
NoCall == [name |-> "none"]
NoOutcome == [call |-> "none", settled |-> "none"]
CallIdle == tpc = "idle" /\ call = NoCall /\ tret = NoOutcome
TopIdle == CallIdle /\ defaultIgnorePatterns = {}
NotCalculated == [num |-> 0, den |-> 0]
CosIdle == argA = <<>> /\ argB = <<>> /\ cosine = NotCalculated
AgentIdle ==
  /\ CacheIdle /\ IndexIdle /\ TopIdle /\ CosIdle /\ embeddingService = TRUE /\ memoryEngine = TRUE

\* the embedding service, constructed and not used
EmbIdle ==
  /\ embInitialized = FALSE /\ apiKey = "" /\ maxBatchSize = 1 /\ epc = "idle"
  /\ batchTexts = <<>> /\ batchI = 0 /\ batchResults = <<>> /\ requests = <<>>
  /\ eret = None /\ textArg = <<>> /\ normalized = <<>> /\ applied = 0

(***************************************************************************)
(* VectorStore operations                                                  *)
(***************************************************************************)
StoreInit ==
  /\ EmbIdle /\ AgentIdle
  /\ initialized = FALSE
  /\ dimensions = NULL
  /\ vectors = <<>>
  /\ metadata = <<>>
  /\ pend = <<>>
  /\ ret = None
  /\ now = 0

\* the caller takes the outcome of the call that has just settled
Observe ==
  /\ UNCHANGED <<embVars, cacheVars, indexVars, topVars, cosVars>>
  /\ ret.op # "none"
  /\ ret' = None
  /\ UNCHANGED <<initialized, dimensions, vectors, metadata, pend, now>>

\* initialize(), up to the await of _loadFromPersistence
Initialize ==
  /\ UNCHANGED <<embVars, cacheVars, indexVars, topVars, cosVars>>
  /\ ret.op = "none"
  /\ IF initialized
     THEN ret' = [op |-> "initialize", success |-> TRUE] /\ UNCHANGED pend
     ELSE /\ Len(pend) < MaxPending
          /\ pend' = Append(pend, [op |-> "initialize", id |-> ""])
          /\ UNCHANGED ret
  /\ UNCHANGED <<initialized, dimensions, vectors, metadata, now>>

\* initialize(), after _loadFromPersistence settled
InitializeResume(i, loaded) ==
  /\ UNCHANGED <<embVars, cacheVars, indexVars, topVars, cosVars>>
  /\ ret.op = "none"
  /\ pend[i].op = "initialize"
  /\ pend' = Remove(pend, i)
  /\ IF loaded
     THEN initialized' = TRUE /\ ret' = [op |-> "initialize", success |-> TRUE]
     ELSE initialized' = initialized
          /\ ret' = Failure("initialize", "Vector store initialization failed")
  /\ UNCHANGED <<dimensions, vectors, metadata, now>>

\* storeVector(id, vector, metadata), up to the await of _persistVector
StoreVector(id, vector, meta) ==
  /\ UNCHANGED <<embVars, cacheVars, indexVars, topVars, cosVars>>
  /\ ret.op = "none"
  /\ UNCHANGED <<initialized, now>>
  /\ IF NotInitialized(initialized)
     THEN /\ ret' = Failure("storeVector", "Vector store not initialized")
          /\ UNCHANGED <<dimensions, vectors, metadata, pend>>
     ELSE IF ~ValidId(id)
     THEN /\ ret' = Failure("storeVector", "Invalid id")
          /\ UNCHANGED <<dimensions, vectors, metadata, pend>>
     ELSE IF ~ValidVector(vector)
     THEN /\ ret' = Failure("storeVector", "Invalid vector")
          /\ UNCHANGED <<dimensions, vectors, metadata, pend>>
     ELSE /\ dimensions' = SetDimensions(dimensions, vector)
          /\ IF DimensionMismatch(dimensions', vector)
             THEN /\ ret' = Failure("storeVector", "Vector dimension mismatch")
                  /\ UNCHANGED <<vectors, metadata, pend>>
             ELSE /\ Len(pend) < MaxPending
                  /\ vectors' = MapSet(vectors, id, vector)
                  /\ metadata' = StoreMetadata(metadata, id, meta, now)
                  /\ pend' = Append(pend, [op |-> "storeVector", id |-> id,
                                            vector |-> vector, meta |-> meta])
                  /\ UNCHANGED ret

\* try { await hook } catch { warn }: what the persistence hook did does not
\* reach the caller
\* a rejection of the hook rethrown
Propagates_Rejection(hookOk) == ~hookOk
Propagates(hookOk) == FALSE
\* (hook in an outcome records what the hook did; the returned object does
\* not hold it)
HookOutcome(hookOk) == IF hookOk THEN "ok" ELSE "failed"

\* storeVector, after _persistVector settled (a rejection is caught and logged)
StoreVectorResume(i, persisted) ==
  /\ UNCHANGED <<embVars, cacheVars, indexVars, topVars, cosVars>>
  /\ ret.op = "none"
  /\ pend[i].op = "storeVector"
  /\ pend' = Remove(pend, i)
  /\ ret' = IF Propagates(persisted)
             THEN Failure("storeVector", "Failed to persist vector")
             ELSE [op |-> "storeVector", success |-> TRUE, id |-> pend[i].id,
                   hook |-> HookOutcome(persisted)]
  /\ UNCHANGED <<initialized, dimensions, vectors, metadata, now>>

\* the query compared with the dimension also while none is fixed
QueryMismatch_Unfixed(dim, queryVector) == Len(queryVector) # dim
\* this.dimensions !== null && queryVector.length !== this.dimensions
QueryMismatch(dim, queryVector) == dim # NULL /\ Len(queryVector) # dim

\* findSimilar(queryVector, limit, threshold): no await, one uninterrupted run
FindSimilar(queryVector, limit, threshold) ==
  /\ UNCHANGED <<embVars, cacheVars, indexVars, topVars, cosVars>>
  /\ ret.op = "none"
  /\ IF NotInitialized(initialized)
     THEN ret' = Failure("findSimilar", "Vector store not initialized")
     ELSE IF ~ValidVector(queryVector)
     THEN ret' = Failure("findSimilar", "Invalid query vector")
     ELSE IF QueryMismatch(dimensions, queryVector)
     THEN ret' = Failure("findSimilar", "Query vector dimension mismatch")
     ELSE ret' = [op |-> "findSimilar", success |-> TRUE,
                  query |-> queryVector, limit |-> limit, threshold |-> threshold,
                  value |-> FindSimilarResult(vectors, metadata, queryVector, limit, threshold)]
  /\ UNCHANGED <<initialized, dimensions, vectors, metadata, pend, now>>

\* deleteVector(id), up to the await of _deletePersistedVector (or to the
\* return when the id is absent)
DeleteVector(id) ==
  /\ UNCHANGED <<embVars, cacheVars, indexVars, topVars, cosVars>>
  /\ ret.op = "none"
  /\ UNCHANGED <<initialized, dimensions, now>>
  /\ IF NotInitialized(initialized)
     THEN /\ ret' = Failure("deleteVector", "Vector store not initialized")
          /\ UNCHANGED <<vectors, metadata, pend>>
     ELSE LET exists == MapHas(vectors, id)
          IN IF exists
             THEN /\ Len(pend) < MaxPending
                  /\ vectors' = MapDelete(vectors, id)
                  /\ metadata' = MapDelete(metadata, id)
                  /\ pend' = Append(pend, [op |-> "deleteVector", id |-> id, exists |-> exists])
                  /\ UNCHANGED ret
             ELSE /\ ret' = [op |-> "deleteVector", success |-> TRUE,
                             id |-> id, deleted |-> exists, hook |-> "none"]
                  /\ UNCHANGED <<vectors, metadata, pend>>

\* deleteVector, after _deletePersistedVector settled (a rejection is caught)
DeleteVectorResume(i, removed) ==
  /\ UNCHANGED <<embVars, cacheVars, indexVars, topVars, cosVars>>
  /\ ret.op = "none"
  /\ pend[i].op = "deleteVector"
  /\ pend' = Remove(pend, i)
  /\ ret' = IF Propagates(removed)
             THEN Failure("deleteVector", "Failed to delete persisted vector")
             ELSE [op |-> "deleteVector", success |-> TRUE, id |-> pend[i].id,
                   deleted |-> pend[i].exists, hook |-> HookOutcome(removed)]
  /\ UNCHANGED <<initialized, dimensions, vectors, metadata, now>>

\* getAllVectors(): no await
GetAllVectors ==
  /\ UNCHANGED <<embVars, cacheVars, indexVars, topVars, cosVars>>
  /\ ret.op = "none"
  /\ IF NotInitialized(initialized)
     THEN ret' = Failure("getAllVectors", "Vector store not initialized")
     ELSE ret' = [op |-> "getAllVectors", success |-> TRUE,
                  value |-> AllVectors(vectors, metadata, Len(vectors))]
  /\ UNCHANGED <<initialized, dimensions, vectors, metadata, pend, now>>

\* findSimilar among concurrent callers is called with one limit and one
\* threshold; SpecFind below calls it with every limit and threshold on every
\* store content
ConcurrentLimits == {MaxLimit}
ConcurrentThresholds == {[num |-> 0, den |-> 1]}

StoreNext ==
  \/ Observe
  \/ Initialize
  \/ \E i \in 1..Len(pend), loaded \in BOOLEAN : InitializeResume(i, loaded)
  \/ \E id \in IdInputs, vector \in VectorInputs, meta \in Metas :
       StoreVector(id, vector, meta)
  \/ \E i \in 1..Len(pend), persisted \in BOOLEAN : StoreVectorResume(i, persisted)
  \/ \E q \in VectorInputs, limit \in ConcurrentLimits, threshold \in ConcurrentThresholds :
       FindSimilar(q, limit, threshold)
  \/ \E id \in IdInputs : DeleteVector(id)
  \/ \E i \in 1..Len(pend), removed \in BOOLEAN : DeleteVectorResume(i, removed)
  \/ GetAllVectors

SpecStore == StoreInit /\ [][StoreNext]_vars

(***************************************************************************)
(* findSimilar and getAllVectors run against every store content that      *)
(* storeVector calls can build: distinct ids (named in the order of their  *)
(* insertion), vectors of one length D.                                    *)
(***************************************************************************)
DistinctKeys(s) == \A i, j \in 1..Len(s) : i # j => s[i].k # s[j].k
SameLength(s) == \A i, j \in 1..Len(s) : Len(s[i].v) = Len(s[j].v)
InsertedInOrder(s) == \A i \in 1..Len(s) : s[i].k = IdNames[i]
StoreContents ==
  {s \in UNION {[1..n -> [k : RecordIds, v : Vectors]] : n \in 0..MaxRecords} :
     DistinctKeys(s) /\ SameLength(s) /\ InsertedInOrder(s)}

FindInit ==
  /\ EmbIdle /\ AgentIdle
  /\ initialized = TRUE
  /\ vectors \in StoreContents
  /\ metadata = [i \in 1..Len(vectors) |->
                   [k |-> vectors[i].k, v |-> [meta |-> "m1", timestamp |-> 0]]]
  /\ dimensions \in (IF vectors = <<>> THEN {NULL} \cup Dims ELSE {Len(vectors[1].v)})
  /\ pend = <<>>
  /\ ret = None
  /\ now = 0

FindNext ==
  \/ Observe
  \/ \E q \in VectorInputs, limit \in Limits, threshold \in Thresholds :
       FindSimilar(q, limit, threshold)
  \/ GetAllVectors

SpecFind == FindInit /\ [][FindNext]_vars

\* _calculateCosineSimilarity alone, on two vectors of the caller's choice
CosineInit ==
  /\ argA \in CosineInputs /\ argB \in CosineInputs /\ cosine = NotCalculated
  /\ initialized = FALSE /\ dimensions = NULL /\ vectors = <<>> /\ metadata = <<>>
  /\ pend = <<>> /\ ret = [op |-> "none"] /\ now = 0
  /\ EmbIdle /\ CacheIdle /\ IndexIdle /\ TopIdle
  /\ embeddingService = TRUE /\ memoryEngine = TRUE
Calculate ==
  /\ cosine = NotCalculated
  /\ cosine' = _calculateCosineSimilarity(argA, argB)
  /\ UNCHANGED <<storeVars, embVars, cacheVars, indexVars, topVars, now, argA, argB>>
CosineNext == Calculate
SpecCosine == CosineInit /\ [][CosineNext]_vars


(***************************************************************************)
(* EmbeddingService                                                        *)
(***************************************************************************)
RECURSIVE TrimStart(_)
TrimStart(text) ==
  IF text # <<>> /\ IsSpace(Head(text)) THEN TrimStart(Tail(text)) ELSE text
RECURSIVE TrimEnd(_)
TrimEnd(text) ==
  IF text # <<>> /\ IsSpace(text[Len(text)])
  THEN TrimEnd(SubSeq(text, 1, Len(text) - 1))
  ELSE text
\* a trim of the head only
Trim_StartOnly(text) == TrimStart(text)
Trim(text) == TrimEnd(TrimStart(text))
\* replace(/\s+/g, ' ')
RECURSIVE CollapseWhitespace(_)
CollapseWhitespace(text) ==
  IF text = <<>> THEN <<>>
  ELSE IF IsSpace(Head(text))
       THEN <<" ">> \o CollapseWhitespace(TrimStart(text))
       ELSE <<Head(text)>> \o CollapseWhitespace(Tail(text))
Substring(text, from, to) == SubSeq(text, from + 1, Min(to, Len(text)))

_preprocessText(text) ==
  LET truncated == Substring(text, 0, maxTextLength)
  IN CollapseWhitespace(Trim(truncated))

\* the body of a 2xx response to a request: one vector per input text, in
\* input order (the contract of the embedding backend)
Json(input) == [isArray |-> TRUE, items |-> [k \in 1..Len(input) |-> Emb(input[k])]]

\* _callApi(input) once the backend has answered or the timer has fired
CallApiResult(input, response) ==
  IF response = "ok" THEN [ok |-> TRUE, value |-> Json(input)]
  ELSE IF response = "malformed" THEN [ok |-> TRUE, value |-> [isArray |-> FALSE, items |-> <<>>]]
  ELSE IF response = "timeout" THEN [ok |-> FALSE, error |-> "API request timed out"]
  ELSE [ok |-> FALSE, error |-> "API request failed"]

\* the timer of _callApi aborts the request: the call settles on the
\* backend's answer and on its silence ("timeout") alike
\* no timer: the call stays pending while the backend is silent
CallApiSettles_NoTimer(response) == response # "timeout"
CallApiSettles(response) == TRUE

\* initialize() accepts the probe's result when it is an array
\* any 2xx body accepted
ValidProbe_Any(testResult) == testResult.ok
ValidProbe(testResult) == testResult.ok /\ testResult.value.isArray

\* a request as sent, and once _callApi has settled on it
Request(kind, input) == [kind |-> kind, input |-> input, response |-> "pending"]
Answered(reqs, response) == [reqs EXCEPT ![Len(reqs)].response = response]
Send(kind, input) == requests' = Append(requests, Request(kind, input))

EmbInit ==
  /\ embInitialized = FALSE
  /\ apiKey \in {"", "key"}
  /\ maxBatchSize \in 1..MaxBatchSize
  /\ epc = "idle"
  /\ batchTexts = <<>> /\ batchI = 0 /\ batchResults = <<>>
  /\ requests = <<>>
  /\ eret = None
  /\ textArg = <<>> /\ normalized = <<>> /\ applied = 0
  /\ initialized = FALSE /\ dimensions = NULL /\ vectors = <<>> /\ metadata = <<>>
  /\ pend = <<>> /\ ret = None /\ now = 0
  /\ AgentIdle

EmbFrame ==
  UNCHANGED <<storeVars, now, apiKey, maxBatchSize, cacheVars, indexVars, topVars, cosVars, normalized, applied>>
BatchFrame == UNCHANGED <<batchTexts, batchI, batchResults>>

\* the caller takes the outcome; the next call starts with an empty request log
EmbObserve ==
  /\ eret.op # "none"
  /\ eret' = None
  /\ requests' = <<>>
  /\ batchTexts' = <<>> /\ batchI' = 0 /\ batchResults' = <<>> /\ textArg' = <<>>
  /\ UNCHANGED <<embInitialized, epc>>
  /\ EmbFrame

\* initialize(), up to the await of the probe
EmbInitialize ==
  /\ epc = "idle" /\ eret.op = "none"
  /\ EmbFrame /\ BatchFrame /\ UNCHANGED <<embInitialized, textArg>>
  /\ IF embInitialized
     THEN eret' = [op |-> "initialize", success |-> TRUE] /\ UNCHANGED <<epc, requests>>
     ELSE IF apiKey = ""
     THEN /\ eret' = Failure("initialize", <<"Hugging Face API key not configured">>)
          /\ UNCHANGED <<epc, requests>>
     ELSE /\ Send("probe", <<ProbeText>>)
          /\ epc' = "initialize"
          /\ UNCHANGED eret

\* initialize(), after the probe settled
EmbInitializeResume(response) ==
  /\ epc = "initialize"
  /\ CallApiSettles(response)
  /\ epc' = "idle"
  /\ EmbFrame /\ BatchFrame /\ UNCHANGED textArg
  /\ requests' = Answered(requests, response)
  /\ LET testResult == CallApiResult(<<ProbeText>>, response)
     IN IF ValidProbe(testResult)
        THEN embInitialized' = TRUE /\ eret' = [op |-> "initialize", success |-> TRUE]
        ELSE /\ embInitialized' = embInitialized
             /\ eret' = Failure("initialize",
                                <<"Embedding service initialization failed",
                                  IF testResult.ok THEN "Invalid response from Hugging Face API"
                                  ELSE testResult.error>>)

\* the guard if (!text || typeof text !== 'string'): a text is a string here
\* the guard left out
ValidText_Any(text) == TRUE
ValidText(text) == text # <<>>

\* generateEmbedding(text), up to the await of _callApi
GenerateEmbedding(text) ==
  /\ epc = "idle" /\ eret.op = "none"
  /\ EmbFrame /\ BatchFrame /\ UNCHANGED embInitialized
  /\ textArg' = text
  /\ IF ~embInitialized
     THEN /\ eret' = Failure("generateEmbedding", <<"Embedding service not initialized">>)
          /\ UNCHANGED <<epc, requests>>
     ELSE IF ~ValidText(text)
     THEN /\ eret' = Failure("generateEmbedding", <<"Invalid input">>)
          /\ UNCHANGED <<epc, requests>>
     ELSE /\ Send("single", <<_preprocessText(text)>>)
          /\ epc' = "generateEmbedding"
          /\ UNCHANGED eret

\* generateEmbedding, after _callApi settled
GenerateEmbeddingResume(response) ==
  /\ epc = "generateEmbedding"
  /\ CallApiSettles(response)
  /\ epc' = "idle"
  /\ EmbFrame /\ BatchFrame /\ UNCHANGED <<embInitialized, textArg>>
  /\ requests' = Answered(requests, response)
  /\ LET embedding == CallApiResult(requests[Len(requests)].input, response)
     IN IF embedding.ok
        THEN eret' = [op |-> "generateEmbedding", success |-> TRUE,
                      value |-> embedding.value.items[1]]
        ELSE eret' = Failure("generateEmbedding", <<"Failed to generate embedding", embedding.error>>)

\* the recursive generateBatchEmbeddings(chunk) of the loop, or the call
\* itself when texts fit one batch: preprocess and send one request
BatchRequest(chunk) == Request("batch", [k \in 1..Len(chunk) |-> _preprocessText(chunk[k])])
SendBatch(chunk) == requests' = Append(requests, BatchRequest(chunk))
\* a slice that always starts at the head of the list
Chunk_FromStart(texts, i) == Slice(texts, 0, maxBatchSize)
Chunk(texts, i) == Slice(texts, i, i + maxBatchSize)

\* generateBatchEmbeddings(texts), up to the first await of _callApi
GenerateBatchEmbeddings(texts) ==
  /\ epc = "idle" /\ eret.op = "none"
  /\ EmbFrame /\ UNCHANGED <<embInitialized, textArg>>
  /\ IF ~embInitialized
     THEN /\ eret' = Failure("generateBatchEmbeddings", <<"Embedding service not initialized">>)
          /\ UNCHANGED <<epc, requests>> /\ BatchFrame
     ELSE IF Len(texts) = 0
     THEN /\ eret' = Failure("generateBatchEmbeddings", <<"Invalid input">>)
          /\ UNCHANGED <<epc, requests>> /\ BatchFrame
     ELSE /\ batchTexts' = texts
          /\ batchI' = 0
          /\ batchResults' = <<>>
          /\ UNCHANGED eret
          /\ IF Len(texts) > maxBatchSize
             THEN SendBatch(Chunk(texts, 0)) /\ epc' = "chunk"
             ELSE SendBatch(texts) /\ epc' = "batch"

\* a batch that fits one request, after _callApi settled
BatchResume(response) ==
  /\ epc = "batch"
  /\ CallApiSettles(response)
  /\ epc' = "idle"
  /\ EmbFrame /\ BatchFrame /\ UNCHANGED <<embInitialized, textArg>>
  /\ requests' = Answered(requests, response)
  /\ LET embeddings == CallApiResult(requests[Len(requests)].input, response)
     IN IF embeddings.ok
        THEN eret' = [op |-> "generateBatchEmbeddings", success |-> TRUE,
                      value |-> embeddings.value.items]
        ELSE eret' = Failure("generateBatchEmbeddings",
                             <<"Failed to generate batch embeddings", embeddings.error>>)

\* the request log when _callApi has thrown: the catch logs and throws
\* anew, and the loop awaiting the chunk has no catch; nothing is sent
\* the failed request sent a second time
Rethrown_Retried(reqs, response) ==
  Append(Answered(reqs, response), [reqs[Len(reqs)] EXCEPT !.response = "pending"])
Rethrown(reqs, response) == Answered(reqs, response)

\* the loop over the chunks, after the request of the chunk at i settled:
\* push its vectors and go on to the next chunk, or return, or fail
ChunkResume(response) ==
  /\ epc = "chunk"
  /\ CallApiSettles(response)
  /\ EmbFrame /\ UNCHANGED <<embInitialized, batchTexts, textArg>>
  /\ LET chunkResults == CallApiResult(requests[Len(requests)].input, response)
         next == batchI + maxBatchSize
     IN IF ~chunkResults.ok
        THEN /\ eret' = Failure("generateBatchEmbeddings",
                                <<"Failed to generate batch embeddings", chunkResults.error>>)
             /\ epc' = "idle"
             /\ requests' = Rethrown(requests, response)
             /\ UNCHANGED <<batchI, batchResults>>
        ELSE /\ batchResults' = batchResults \o chunkResults.value.items
             /\ batchI' = next
             /\ IF next < Len(batchTexts)
                THEN /\ requests' = Append(Answered(requests, response),
                                            BatchRequest(Chunk(batchTexts, next)))
                     /\ UNCHANGED <<epc, eret>>
                ELSE /\ eret' = [op |-> "generateBatchEmbeddings", success |-> TRUE,
                                 value |-> batchResults']
                     /\ epc' = "idle"
                     /\ requests' = Answered(requests, response)

Responses == {"ok", "error", "timeout"}

EmbNext ==
  \/ EmbObserve
  \/ EmbInitialize
  \/ \E response \in Responses \cup {"malformed"} : EmbInitializeResume(response)
  \/ \E text \in TextInputs : GenerateEmbedding(text)
  \/ \E response \in Responses : GenerateEmbeddingResume(response)
  \/ \E texts \in TextLists : GenerateBatchEmbeddings(texts)
  \/ \E response \in Responses : BatchResume(response)
  \/ \E response \in Responses : ChunkResume(response)

SpecEmbed == EmbInit /\ [][EmbNext]_vars

\* setTimeout(() => controller.abort(), requestTimeout): the timer of a
\* request in flight fires unless the request has settled before
TimerFires ==
  \/ EmbInitializeResume("timeout")
  \/ GenerateEmbeddingResume("timeout")
  \/ BatchResume("timeout")
  \/ ChunkResume("timeout")
\* the backend is free to answer or not; the timer is not
SpecEmbedLive == EmbInit /\ [][EmbNext]_vars /\ WF_vars(TimerFires)

(***************************************************************************)
(* _preprocessText applied to every string of a bounded length             *)
(***************************************************************************)
NormalizeInit ==
  /\ embInitialized = FALSE /\ apiKey = "" /\ maxBatchSize = 1 /\ epc = "idle"
  /\ batchTexts = <<>> /\ batchI = 0 /\ batchResults = <<>> /\ requests = <<>>
  /\ eret = None
  /\ textArg \in Strings
  /\ normalized = <<>> /\ applied = 0
  /\ initialized = FALSE /\ dimensions = NULL /\ vectors = <<>> /\ metadata = <<>>
  /\ pend = <<>> /\ ret = None /\ now = 0
  /\ AgentIdle

NormalizeFrame ==
  UNCHANGED <<storeVars, now, cacheVars, indexVars, topVars, cosVars, embInitialized, apiKey, maxBatchSize,
              epc, batchTexts, batchI, batchResults, requests, eret, textArg>>

\* _preprocessText(text)
Normalize ==
  /\ applied = 0
  /\ normalized' = _preprocessText(textArg)
  /\ applied' = 1
  /\ NormalizeFrame

\* _preprocessText applied to its own result
NormalizeAgain ==
  /\ applied = 1
  /\ normalized' = _preprocessText(normalized)
  /\ applied' = 2
  /\ NormalizeFrame

NormalizeNext == Normalize \/ NormalizeAgain

SpecNormalize == NormalizeInit /\ [][NormalizeNext]_vars


(***************************************************************************)
(* FileAgent.readFile and its content cache                                *)
(***************************************************************************)
StoreIdle ==
  /\ initialized = FALSE /\ dimensions = NULL /\ vectors = <<>> /\ metadata = <<>>
  /\ pend = <<>> /\ ret = None

\* fileCache.has(path) and Date.now() - cachedFile.timestamp < this.cacheTTL
\* an entry still served at the age of exactly cacheTTL
NotExpired_Inclusive(entry, t) == t - entry.timestamp <= cacheTTL
NotExpired(entry, t) == t - entry.timestamp < cacheTTL
\* a cache that is never consulted
CacheHit_Never(cache, path, t) == FALSE
CacheHit(cache, path, t) == cache[path].has /\ NotExpired(cache[path], t)
\* the entry found expired is deleted
\* the expired entry left in the cache
CacheEvict_Kept(cache, path) == cache
CacheEvict(cache, path) == [cache EXCEPT ![path] = NoEntry]
CachePut(cache, path, content, t) ==
  [cache EXCEPT ![path] = [has |-> TRUE, content |-> content, timestamp |-> t]]

\* the cache after a hit: the entry is returned and not written
\* a hit that stamps the entry anew (sliding expiration)
AfterHit_Sliding(cache, path, t) == [cache EXCEPT ![path].timestamp = t]
AfterHit(cache, path, t) == cache

\* what viewTool.execute(path) may resolve with
ViewResults ==
  {[success |-> TRUE, content |-> c, error |-> ""] : c \in Contents}
    \cup {[success |-> FALSE, content |-> <<>>, error |-> "Failed to read file"]}

CacheInit ==
  /\ AgentIdle /\ EmbIdle /\ StoreIdle
  /\ now = 0

CacheFrame == UNCHANGED <<storeVars, embVars, indexVars, topVars, cosVars>>

CacheObserve ==
  /\ rret.op # "none"
  /\ rret' = None
  /\ UNCHANGED <<fileCache, rpend, ticks, now>>
  /\ CacheFrame

\* readFile(path), up to the await of viewTool.execute (or to the return on
\* a cache hit)
ReadFile(path) ==
  /\ rret.op = "none"
  /\ CacheFrame /\ UNCHANGED <<ticks, now>>
  /\ IF path = ""
     THEN /\ rret' = Failure("readFile", <<"Missing required parameter: path">>)
          /\ UNCHANGED <<fileCache, rpend>>
     ELSE IF CacheHit(fileCache, path, now)
     THEN /\ rret' = [op |-> "readFile", success |-> TRUE, path |-> path,
                      content |-> fileCache[path].content, fromCache |-> TRUE]
          /\ fileCache' = AfterHit(fileCache, path, now)
          /\ UNCHANGED rpend
     ELSE /\ Len(rpend) < MaxReaders
          /\ fileCache' = CacheEvict(fileCache, path)
          /\ rpend' = Append(rpend, [path |-> path])
          /\ UNCHANGED rret

\* readFile, after viewTool.execute settled
ReadFileResume(i, result) ==
  /\ rret.op = "none"
  /\ i \in 1..Len(rpend)
  /\ CacheFrame /\ UNCHANGED <<ticks, now>>
  /\ rpend' = Remove(rpend, i)
  /\ LET path == rpend[i].path
     IN IF ~result.success
        THEN /\ rret' = Failure("readFile", <<"Failed to read file", path, result.error>>)
             /\ UNCHANGED fileCache
        ELSE /\ fileCache' = CachePut(fileCache, path, result.content, now)
             /\ rret' = [op |-> "readFile", success |-> TRUE, path |-> path,
                         content |-> result.content, fromCache |-> FALSE]

\* the clock moves between two callbacks
Advance(d) ==
  /\ rret.op = "none"
  /\ ticks < MaxTicks
  /\ ticks' = ticks + 1
  /\ now' = now + d
  /\ UNCHANGED <<fileCache, rpend, rret>>
  /\ CacheFrame

CacheNext ==
  \/ CacheObserve
  \/ \E path \in PathInputs : ReadFile(path)
  \/ \E i \in 1..Len(rpend), result \in ViewResults : ReadFileResume(i, result)
  \/ \E d \in Jumps : Advance(d)

SpecCache == CacheInit /\ [][CacheNext]_vars

\* a sequential history: a caller that awaits each readFile before it
\* calls the next, so that no call starts while a fetch is in flight
SequentialRead(path) == rpend = <<>> /\ ReadFile(path)

SequentialNext ==
  \/ CacheObserve
  \/ \E path \in PathInputs : SequentialRead(path)
  \/ \E i \in 1..Len(rpend), result \in ViewResults : ReadFileResume(i, result)
  \/ \E d \in Jumps : Advance(d)

SpecSequential == CacheInit /\ [][SequentialNext]_vars


(***************************************************************************)
(* FileAgent.indexFiles and _indexSingleFile                               *)
(***************************************************************************)
\* a call of _indexSingleFile is suspended at readFile (served from the
\* cache: "readHit", fetching: "fetch"), at generateEmbedding ("embed") or at
\* storeMemory ("store"), or has settled ("fulfilled", "rejected");
\* requested counts the embeddings the call has asked for
NotStarted(path) ==
  [path |-> path, pc |-> "notStarted", content |-> <<>>, embedding |-> <<>>,
   requested |-> 0, error |-> <<>>]
IsSettled(task) == task.pc \in {"fulfilled", "rejected"}
InFlight(task) == task.pc \in {"readHit", "fetch", "embed", "store"}
Reject(task, error) == [task EXCEPT !.pc = "rejected", !.error = error]

\* _indexSingleFile(path) up to its first await: the lookup of readFile
LaunchTask(cache, path, t) ==
  IF CacheHit(cache, path, t)
  THEN [NotStarted(path) EXCEPT !.pc = "readHit", !.content = cache[path].content]
  ELSE [NotStarted(path) EXCEPT !.pc = "fetch"]

\* the call of embeddingService.generateEmbedding(content)
RequestEmbedding(task, content) ==
  [task EXCEPT !.pc = "embed", !.content = content, !.requested = @ + 1]

\* the id the file's record is stored under
\* an id that leaves the path out
StoreKey_NoPath(path) == <<"file_content", "">>
StoreKey(path) == <<"file_content", path>>
\* what storeMemory is given for a file
FileRecord(task) ==
  [id |-> StoreKey(task.path), path |-> task.path, content |-> task.content,
   embedding |-> task.embedding]
\* what storeMemory is given for the report of a run
ReportRecord(pattern) ==
  [id |-> <<"file_indexing", pattern>>, path |-> "", content |-> <<>>, embedding |-> <<>>]

\* searchFiles throws when the path resolver reports failure
\* a failure of the resolver taken for an empty match list
SearchFailed_Ignored(result) == FALSE
SearchFailed(result) == ~result.success

\* files.slice(i, i + batchSize), as the indices of the files in it
Batch(list, i) == {k \in 1..Len(list) : i < k /\ k <= i + batchSize}

\* batch.map(file => this._indexSingleFile(file))
StartBatch(ts, cache, t, i) ==
  [k \in 1..Len(ts) |-> IF k \in Batch(ts, i) THEN LaunchTask(cache, ts[k].path, t) ELSE ts[k]]
EvictBatch(ts, cache, t, i) ==
  [p \in AllPaths |->
     IF (\E k \in Batch(ts, i) : ts[k].path = p) /\ ~CacheHit(cache, p, t)
     THEN NoEntry ELSE cache[p]]

\* Promise.allSettled(batchPromises) has resolved
\* a join that resolves as soon as one call of the batch has settled
AllSettled_Any(ts, i) == \E k \in Batch(ts, i) : IsSettled(ts[k])
AllSettled(ts, i) == \A k \in Batch(ts, i) : IsSettled(ts[k])

\* the order of batchResults: Promise.allSettled keeps the order of the
\* promises it was given, whatever the order they settled in
RECURSIVE Ascending(_, _)
Ascending(from, to) == IF from > to THEN <<>> ELSE <<from>> \o Ascending(from + 1, to)
RECURSIVE Select(_, _)
Select(order, keep) ==
  IF order = <<>> THEN <<>>
  ELSE (IF Head(order) \in keep THEN <<Head(order)>> ELSE <<>>) \o Select(Tail(order), keep)
\* the results taken in the order the calls settled in
BatchResults_AsSettled(ts, i, order) == Select(order, Batch(ts, i))
BatchResults(ts, i, order) == Ascending(i + 1, Min(i + batchSize, Len(ts)))

\* the entry pushed to results.details for one settled call
\* (a fulfilled call's entry has no error and a rejected call's no size:
\* <<>> and 0 stand for the missing fields)
\* an entry that reports a rejected call as succeeded
Detail_AlwaysOk(task) ==
  [path |-> task.path, success |-> TRUE, size |-> Len(task.content), error |-> <<>>]
Detail(task) ==
  IF task.pc = "fulfilled"
  THEN [path |-> task.path, success |-> TRUE, size |-> Len(task.content), error |-> <<>>]
  ELSE [path |-> task.path, success |-> FALSE, size |-> 0,
        error |-> IF task.error = <<>> THEN <<"Unknown error">> ELSE task.error]

\* failedFiles left as it was
CountFailed_Never(n, task) == n
CountFailed(n, task) == IF task.pc = "fulfilled" THEN n ELSE n + 1
CountProcessed(n, task) == IF task.pc = "fulfilled" THEN n + 1 ELSE n

\* the loop over batchResults
RECURSIVE Aggregate(_, _, _)
Aggregate(report, ts, order) ==
  IF order = <<>> THEN report
  ELSE Aggregate([report EXCEPT
                    !.processedFiles = CountProcessed(@, ts[Head(order)]),
                    !.failedFiles = CountFailed(@, ts[Head(order)]),
                    !.details = Append(@, Detail(ts[Head(order)]))],
                 ts, Tail(order))

GlobResults ==
  {[success |-> TRUE, data |-> list, error |-> ""] : list \in FileLists}
    \cup {[success |-> FALSE, data |-> <<>>, error |-> "Failed to match files"]}
\* what viewTool.execute resolves with in an indexing run
IndexViewResults == {r \in ViewResults : r.content # <<"b">>}

IndexInit ==
  /\ CacheIdle /\ IndexIdle /\ TopIdle /\ CosIdle /\ EmbIdle /\ StoreIdle
  /\ embeddingService \in BOOLEAN
  /\ memoryEngine \in BOOLEAN
  /\ now = 0

IndexFrame ==
  UNCHANGED <<storeVars, embVars, now, rpend, rret, ticks, embeddingService, memoryEngine,
              topVars, cosVars>>

IndexObserve ==
  /\ iret.op # "none"
  /\ iret' = None
  /\ files' = <<>> /\ tasks' = <<>> /\ batchAt' = 0 /\ results' = NoReport
  /\ resolution' = "none" /\ settledOrder' = <<>>
  /\ UNCHANGED <<ipc, stored, fileCache>>
  /\ IndexFrame

\* indexFiles(pattern), up to the await of globTool.execute in searchFiles
\* a collaborator taken for wired in whatever the field holds
NotWired_Never(service) == FALSE
\* !this.embeddingService, !this.memoryEngine
NotWired(service) == ~service

IndexFiles(pattern) ==
  /\ ipc = "idle" /\ iret.op = "none"
  /\ IndexFrame
  /\ UNCHANGED <<files, batchAt, results, tasks, stored, fileCache, resolution, settledOrder>>
  /\ IF pattern = ""
     THEN iret' = Failure("indexFiles", <<"Missing required parameter: pattern">>)
          /\ UNCHANGED ipc
     ELSE IF NotWired(embeddingService)
     THEN iret' = Failure("indexFiles", <<"Embedding service required for file indexing">>)
          /\ UNCHANGED ipc
     ELSE IF NotWired(memoryEngine)
     THEN iret' = Failure("indexFiles", <<"Memory engine required for file indexing">>)
          /\ UNCHANGED ipc
     ELSE ipc' = "resolving" /\ UNCHANGED iret

\* indexFiles, after searchFiles settled: fail, or start the first batch,
\* or go to the persisting of the report when no file matched
ResolveResume(result) ==
  /\ ipc = "resolving"
  /\ IndexFrame /\ UNCHANGED <<stored, settledOrder>>
  /\ resolution' = IF result.success THEN "ok" ELSE "failed"
  /\ IF SearchFailed(result)
     THEN /\ iret' = Failure("indexFiles",
                           <<"Failed to search for files matching", result.error>>)
          /\ ipc' = "idle"
          /\ UNCHANGED <<files, batchAt, results, tasks, fileCache>>
     ELSE /\ files' = result.data
          /\ results' = [NoReport EXCEPT !.totalFiles = Len(result.data)]
          /\ batchAt' = 0
          /\ UNCHANGED iret
          /\ LET ts == [k \in 1..Len(result.data) |-> NotStarted(result.data[k])]
             IN IF Len(result.data) = 0
                THEN ipc' = "persisting" /\ tasks' = ts /\ UNCHANGED fileCache
                ELSE /\ ipc' = "processing"
                     /\ tasks' = StartBatch(ts, fileCache, now, 0)
                     /\ fileCache' = EvictBatch(ts, fileCache, now, 0)

TaskFrame == IndexFrame /\ UNCHANGED <<ipc, files, batchAt, results, iret, resolution>>

\* _indexSingleFile, after a readFile served from the cache resolved: call
\* generateEmbedding(content)
ReadHitResume(k) ==
  /\ k \in 1..Len(tasks) /\ tasks[k].pc = "readHit"
  /\ tasks' = [tasks EXCEPT ![k] = RequestEmbedding(@, @.content)]
  /\ UNCHANGED <<fileCache, stored, settledOrder>>
  /\ TaskFrame

\* readFile inside _indexSingleFile, after viewTool.execute settled
FetchResume(k, result) ==
  /\ k \in 1..Len(tasks) /\ tasks[k].pc = "fetch"
  /\ TaskFrame /\ UNCHANGED stored
  /\ IF ~result.success
     THEN /\ tasks' = [tasks EXCEPT ![k] =
                         Reject(@, <<"Failed to read file", tasks[k].path, result.error>>)]
          /\ settledOrder' = Append(settledOrder, k)
          /\ UNCHANGED fileCache
     ELSE /\ fileCache' = CachePut(fileCache, tasks[k].path, result.content, now)
          /\ tasks' = [tasks EXCEPT ![k] = RequestEmbedding(@, result.content)]
          /\ UNCHANGED settledOrder

\* _indexSingleFile, after generateEmbedding settled: call storeMemory
EmbedResume(k, ok) ==
  /\ k \in 1..Len(tasks) /\ tasks[k].pc = "embed"
  /\ TaskFrame /\ UNCHANGED <<fileCache, stored>>
  /\ IF ok
     THEN /\ tasks' = [tasks EXCEPT ![k].pc = "store",
                                    ![k].embedding = Emb(_preprocessText(tasks[k].content))]
          /\ UNCHANGED settledOrder
     ELSE /\ tasks' = [tasks EXCEPT ![k] =
                         Reject(@, <<"Failed to generate embedding", tasks[k].path>>)]
          /\ settledOrder' = Append(settledOrder, k)

\* _indexSingleFile, after storeMemory settled
StoreResume(k, outcome) ==
  /\ k \in 1..Len(tasks) /\ tasks[k].pc = "store"
  /\ TaskFrame /\ UNCHANGED fileCache
  /\ settledOrder' = Append(settledOrder, k)
  /\ IF outcome = "ok"
     THEN /\ tasks' = [tasks EXCEPT ![k].pc = "fulfilled"]
          /\ stored' = stored \cup {FileRecord(tasks[k])}
     ELSE /\ tasks' = [tasks EXCEPT ![k] =
                         Reject(@, IF outcome = "error"
                                   THEN <<"storeMemory failed", tasks[k].path>> ELSE <<>>)]
          /\ UNCHANGED stored

\* indexFiles, after Promise.allSettled resolved: add the batch to the
\* report, then start the next batch or offer the report to the memory engine
\* a loop that does not advance: the batch that has just settled comes again
NextBatch_Same(i) == i
\* for (let i = 0; i < files.length; i += batchSize)
NextBatch(i) == i + batchSize

Join ==
  /\ ipc = "processing"
  /\ AllSettled(tasks, batchAt)
  /\ IndexFrame /\ UNCHANGED <<files, stored, iret, resolution, settledOrder>>
  /\ results' = Aggregate(results, tasks, BatchResults(tasks, batchAt, settledOrder))
  /\ batchAt' = NextBatch(batchAt)
  /\ IF batchAt' < Len(files)
     THEN /\ tasks' = StartBatch(tasks, fileCache, now, batchAt')
          /\ fileCache' = EvictBatch(tasks, fileCache, now, batchAt')
          /\ UNCHANGED ipc
     ELSE /\ ipc' = "persisting"
          /\ UNCHANGED <<tasks, fileCache>>

\* a rejection of storeMemory thrown on to the caller of indexFiles
ReportLost_Thrown(ok) == ~ok
\* try { await storeMemory(report) } catch { warn }: the rejection ends there
ReportLost(ok) == FALSE

\* indexFiles, after storeMemory of the report settled (a rejection is caught)
PersistResume(ok) ==
  /\ ipc = "persisting"
  /\ ipc' = "idle"
  /\ iret' = IF ReportLost(ok)
             THEN Failure("indexFiles", <<"Failed to store indexing results in memory">>)
             ELSE [op |-> "indexFiles", success |-> TRUE, data |-> results]
  /\ stored' = IF ok THEN stored \cup {ReportRecord("*")} ELSE stored
  /\ UNCHANGED <<files, batchAt, results, tasks, fileCache, resolution, settledOrder>>
  /\ IndexFrame

IndexNext ==
  \/ IndexObserve
  \/ \E pattern \in Patterns : IndexFiles(pattern)
  \/ \E result \in GlobResults : ResolveResume(result)
  \/ \E k \in 1..Len(tasks) : ReadHitResume(k)
  \/ \E k \in 1..Len(tasks), result \in IndexViewResults : FetchResume(k, result)
  \/ \E k \in 1..Len(tasks), ok \in BOOLEAN : EmbedResume(k, ok)
  \/ \E k \in 1..Len(tasks), outcome \in StoreOutcomes : StoreResume(k, outcome)
  \/ Join
  \/ \E ok \in BOOLEAN : PersistResume(ok)

SpecIndex == IndexInit /\ [][IndexNext]_vars

\* one run of indexFiles, on a cache that is empty or holds the first file
\* of the listing, with the path resolver returning and every read,
\* embedding request and store of a file settling; the continuation of an
\* await that has settled is run by the event loop
WarmCaches ==
  {[p \in AllPaths |->
      IF p \in warm THEN [has |-> TRUE, content |-> <<"a">>, timestamp |-> 0] ELSE NoEntry] :
     warm \in SUBSET {PathNames[1]}}
IndexLiveInit ==
  /\ fileCache \in WarmCaches /\ rpend = <<>> /\ rret = None /\ ticks = 0
  /\ IndexIdle /\ TopIdle /\ CosIdle /\ EmbIdle /\ StoreIdle
  /\ embeddingService \in BOOLEAN
  /\ memoryEngine \in BOOLEAN
  /\ now = 0
IndexSettles ==
  \/ \E result \in GlobResults : ResolveResume(result)
  \/ \E k \in 1..Len(tasks) : ReadHitResume(k)
  \/ \E k \in 1..Len(tasks), result \in IndexViewResults : FetchResume(k, result)
  \/ \E k \in 1..Len(tasks), ok \in BOOLEAN : EmbedResume(k, ok)
  \/ \E k \in 1..Len(tasks), outcome \in StoreOutcomes : StoreResume(k, outcome)
  \/ Join
  \/ \E ok \in BOOLEAN : PersistResume(ok)
IndexLiveNext ==
  \/ \E pattern \in Patterns : IndexFiles(pattern)
  \/ \E result \in GlobResults : ResolveResume(result)
  \/ \E k \in 1..Len(tasks) : ReadHitResume(k)
  \/ \E k \in 1..Len(tasks), result \in IndexViewResults : FetchResume(k, result)
  \/ \E k \in 1..Len(tasks), ok \in BOOLEAN : EmbedResume(k, ok)
  \/ \E k \in 1..Len(tasks), outcome \in StoreOutcomes : StoreResume(k, outcome)
  \/ Join
  \/ \E ok \in BOOLEAN : PersistResume(ok)
SpecIndexLive == IndexLiveInit /\ [][IndexLiveNext]_vars /\ WF_vars(IndexSettles)

(***************************************************************************)
(* The top-level calls: FileAgent.executeTask, ViewTool.execute and        *)
(* GlobTool.execute                                                        *)
(***************************************************************************)
Operations == {"read", "search", "list", "analyze", "index"}
TaskKinds == {"undefined", "null", "string", "bigint", "object"}
\* a task that is not an object
Primitive(kind) ==
  [kind |-> kind, operation |-> "", path |-> "", pattern |-> "", circular |-> FALSE]
\* the task values: primitives, and objects with or without operation, path
\* and pattern, some of which hold a reference to themselves
TaskInputs ==
  {Primitive(kind) : kind \in TaskKinds \ {"object"}}
    \cup {[kind |-> "object", operation |-> o, path |-> p, pattern |-> q, circular |-> c] :
            o \in Operations \cup {"", "bogus"}, p \in {"", "p"}, q \in Patterns,
            c \in BOOLEAN}
\* the values a tool is called with: a string (empty or not), undefined, and
\* a value that has no conversion to a string (a Symbol)
ArgInputs ==
  {[kind |-> "string", text |-> t] : t \in {"", "p"}}
    \cup {[kind |-> k, text |-> ""] : k \in {"undefined", "symbol"}}

\* JSON.stringify(task) returns: it throws a TypeError on a BigInt and on an
\* object that refers to itself
Serializes(task) == task.kind # "bigint" /\ ~task.circular
\* the test !task || typeof task !== 'object' is passed
ValidTask(task) == task.kind = "object"
\* pattern || path for search and index, path for the other operations
Argument(task) ==
  IF task.operation \in {"search", "index"} /\ task.pattern # ""
  THEN task.pattern ELSE task.path
\* the parameter the operation reports missing
Parameter(operation) == IF operation \in {"search", "index"} THEN "pattern" ELSE "path"
\* the test !filePath || typeof filePath !== 'string' is passed
ValidArg(arg) == arg.kind = "string" /\ arg.text # ""
\* `${arg}` returns: it throws a TypeError on a Symbol
Converts(arg) == arg.kind # "symbol"

\* what an awaited call may do: fulfil with a value or with undefined, reject
\* with an Error, reject with null or undefined
Outcomes ==
  {[settled |-> "fulfilled", defined |-> d, reason |-> <<>>] : d \in BOOLEAN}
    \cup {[settled |-> "rejected", defined |-> d, reason |-> <<"Error">>] : d \in BOOLEAN}
\* an operation of the agent returns an object when it returns
OperationOutcomes == {o \in Outcomes : o.settled = "fulfilled" => o.defined}
\* error.message can be read: the reason is not null or undefined
HasMessage(outcome) == outcome.defined

Returned(name, value) == [call |-> name, settled |-> "returned", value |-> value]
RejectedWith(name, reason) == [call |-> name, settled |-> "rejected", reason |-> reason]
\* the object the catch of executeTask returns
TaskFailure(error, t) == [success |-> FALSE, error |-> error, timestamp |-> t]
\* the object an operation of the agent returns
TaskPayload(operation, t) == [success |-> TRUE, data |-> operation, timestamp |-> t]
\* the object the catch of a tool returns
ToolFailure(error, arg, t) ==
  [success |-> FALSE, error |-> error, metadata |-> [arg |-> arg, timestamp |-> t]]
ViewPayload(arg, size, t) ==
  [success |-> TRUE,
   data |-> [path |-> arg, metadata |-> [size |-> size, timestamp |-> t]]]
GlobPayload(arg, matches, t) ==
  [success |-> TRUE, data |-> matches, metadata |-> [pattern |-> arg, timestamp |-> t]]

TopInit ==
  /\ CacheIdle /\ IndexIdle /\ CallIdle /\ CosIdle /\ EmbIdle /\ StoreIdle
  /\ defaultIgnorePatterns \in SUBSET IgnorePatterns
  /\ embeddingService \in BOOLEAN
  /\ memoryEngine \in BOOLEAN
  /\ now \in 0..MaxTicks

TopFrame ==
  UNCHANGED <<storeVars, embVars, cacheVars, indexVars, cosVars, now, defaultIgnorePatterns>>

TopObserve ==
  /\ tret.settled # "none"
  /\ tret' = NoOutcome
  /\ UNCHANGED <<tpc, call>>
  /\ TopFrame

\* the error the operation throws before its first await, <<>> when it
\* reaches the await
ThrownAtCall(task) ==
  IF Argument(task) = ""
  THEN <<"Missing required parameter", Parameter(task.operation)>>
  ELSE IF task.operation = "index" /\ ~embeddingService
  THEN <<"Embedding service required for file indexing">>
  ELSE IF task.operation = "index" /\ ~memoryEngine
  THEN <<"Memory engine required for file indexing">>
  ELSE <<>>

\* executeTask(task), up to the await of the operation: the logging line
\* stands before the try
ExecuteTask(task) ==
  /\ tpc = "idle" /\ tret.settled = "none"
  /\ TopFrame
  /\ IF ~Serializes(task)
     THEN /\ tret' = RejectedWith("executeTask", <<"TypeError", "JSON.stringify">>)
          /\ UNCHANGED <<tpc, call>>
     ELSE IF ~ValidTask(task)
     THEN /\ tret' = Returned("executeTask",
                              TaskFailure(<<"Invalid task: must be an object">>, now))
          /\ UNCHANGED <<tpc, call>>
     ELSE IF task.operation = ""
     THEN /\ tret' = Returned("executeTask",
                       TaskFailure(<<"Missing required task parameter: operation">>, now))
          /\ UNCHANGED <<tpc, call>>
     ELSE IF task.operation \notin Operations
     THEN /\ tret' = Returned("executeTask",
                       TaskFailure(<<"Unknown file operation", task.operation>>, now))
          /\ UNCHANGED <<tpc, call>>
     ELSE IF ThrownAtCall(task) # <<>>
     THEN /\ tret' = Returned("executeTask", TaskFailure(ThrownAtCall(task), now))
          /\ UNCHANGED <<tpc, call>>
     ELSE /\ tpc' = "operation"
          /\ call' = [name |-> "executeTask", operation |-> task.operation]
          /\ UNCHANGED tret

\* executeTask, after the operation settled: its value is returned, its
\* rejection goes to the catch, which reads error.message
ExecuteTaskResume(outcome) ==
  /\ tpc = "operation"
  /\ TopFrame
  /\ tpc' = "idle" /\ call' = NoCall
  /\ tret' = IF outcome.settled = "fulfilled"
             THEN Returned("executeTask", TaskPayload(call.operation, now))
             ELSE IF HasMessage(outcome)
             THEN Returned("executeTask", TaskFailure(outcome.reason, now))
             ELSE RejectedWith("executeTask", <<"TypeError", "error.message">>)

\* resolvedOptions.maxSize, 5MB unless configured or given, scaled to the
\* sizes a content may have
MaxSizes == {1, 2}
ContentSizes == 0..3

\* ViewTool.execute(filePath, options), up to the await of _readFile; the
\* catch puts filePath into the line it logs
ViewExecute(filePath, maxSize) ==
  /\ tpc = "idle" /\ tret.settled = "none"
  /\ TopFrame
  /\ IF ValidArg(filePath)
     THEN /\ tpc' = "view"
          /\ call' = [name |-> "ViewTool.execute", arg |-> filePath.text,
                      maxSize |-> maxSize]
          /\ UNCHANGED tret
     ELSE /\ tret' = IF Converts(filePath)
                     THEN Returned("ViewTool.execute",
                            ToolFailure(<<"Invalid file path: must be a non-empty string">>,
                                        filePath.text, now))
                     ELSE RejectedWith("ViewTool.execute", <<"TypeError", "template literal">>)
          /\ UNCHANGED <<tpc, call>>

\* ViewTool.execute, after _readFile settled with a content of some size
\* (_readFile passes the encoding alone to the file system; maxSize is
\* merged into the options and compared with nothing): a rejection is thrown again
\* with the message of its reason, a content without length fails at
\* content.length, and the outer catch returns the failure
ViewResume(outcome, size) ==
  /\ tpc = "view"
  /\ TopFrame
  /\ tpc' = "idle" /\ call' = NoCall
  /\ tret' = Returned("ViewTool.execute",
               IF outcome.settled = "fulfilled" /\ outcome.defined
               THEN ViewPayload(call.arg, size, now)
               ELSE IF outcome.settled = "fulfilled"
               THEN ToolFailure(<<"TypeError", "content.length">>, call.arg, now)
               ELSE IF HasMessage(outcome)
               THEN ToolFailure(<<"Failed to read file">> \o outcome.reason, call.arg, now)
               ELSE ToolFailure(<<"TypeError", "readError.message">>, call.arg, now))

\* _globToRegex(pattern).test(relativePath)
Test(pattern, relativePath) == pattern = "*" \/ pattern = relativePath
\* options.ignorePatterns: not given, or a list of patterns
IgnoreOptions ==
  {[given |-> FALSE, patterns |-> {}]}
    \cup {[given |-> TRUE, patterns |-> ps] : ps \in SUBSET IgnorePatterns}
\* the patterns GlobTool.execute is called with
GlobInputs == ArgInputs \cup {[kind |-> "string", text |-> "*"]}
\* resolvedOptions.ignorePatterns: the defaults followed by the caller's
\* patterns, then ...options, which puts the caller's ignorePatterns, when
\* given, in the place of that list
ResolvedIgnorePatterns(defaults, options) ==
  IF options.given THEN options.patterns ELSE defaults \cup options.patterns
\* _getAllFiles: the listing of the file system
AllFiles == SubSeq(PathNames, 1, MaxFiles)
\* the filter of _findMatches: isMatch && !isIgnored
IsIgnored(file, ignorePatterns) == \E ignorePattern \in ignorePatterns : Test(ignorePattern, file)
RECURSIVE _findMatches(_, _, _)
_findMatches(pattern, ignorePatterns, allFiles) ==
  IF allFiles = <<>> THEN <<>>
  ELSE (IF Test(pattern, Head(allFiles)) /\ ~IsIgnored(Head(allFiles), ignorePatterns)
        THEN <<Head(allFiles)>> ELSE <<>>)
         \o _findMatches(pattern, ignorePatterns, Tail(allFiles))

\* GlobTool.execute(pattern, options), up to the await in _findMatches; the
\* catch puts pattern into the line it logs
GlobExecute(pattern, options) ==
  /\ tpc = "idle" /\ tret.settled = "none"
  /\ TopFrame
  /\ IF ValidArg(pattern)
     THEN /\ tpc' = "glob"
          /\ call' = [name |-> "GlobTool.execute", arg |-> pattern.text,
                      options |-> options,
                      ignorePatterns |->
                        ResolvedIgnorePatterns(defaultIgnorePatterns, options)]
          /\ UNCHANGED tret
     ELSE /\ tret' = IF Converts(pattern)
                     THEN Returned("GlobTool.execute",
                            ToolFailure(<<"Invalid pattern: must be a non-empty string">>,
                                        pattern.text, now))
                     ELSE RejectedWith("GlobTool.execute", <<"TypeError", "template literal">>)
          /\ UNCHANGED <<tpc, call>>

\* GlobTool.execute, after _findMatches settled (the listing of at most
\* MaxFiles files stays under maxResults): a rejection is thrown again with
\* the message of its reason, matches without slice fail at matches.slice,
\* and the outer catch returns the failure
GlobResume(outcome) ==
  /\ tpc = "glob"
  /\ TopFrame
  /\ tpc' = "idle" /\ call' = NoCall
  /\ tret' = Returned("GlobTool.execute",
               IF outcome.settled = "fulfilled" /\ outcome.defined
               THEN GlobPayload(call.arg,
                                _findMatches(call.arg, call.ignorePatterns, AllFiles), now)
               ELSE IF outcome.settled = "fulfilled"
               THEN ToolFailure(<<"TypeError", "matches.slice">>, call.arg, now)
               ELSE IF HasMessage(outcome)
               THEN ToolFailure(<<"Failed to match files">> \o outcome.reason, call.arg, now)
               ELSE ToolFailure(<<"TypeError", "matchError.message">>, call.arg, now))

TopNext ==
  \/ TopObserve
  \/ \E task \in TaskInputs : ExecuteTask(task)
  \/ \E outcome \in OperationOutcomes : ExecuteTaskResume(outcome)
  \/ \E filePath \in ArgInputs, maxSize \in MaxSizes : ViewExecute(filePath, maxSize)
  \/ \E outcome \in Outcomes, size \in ContentSizes : ViewResume(outcome, size)
  \/ \E pattern \in GlobInputs, options \in IgnoreOptions : GlobExecute(pattern, options)
  \/ \E outcome \in Outcomes : GlobResume(outcome)

SpecTop == TopInit /\ [][TopNext]_vars


(***************************************************************************)
(* Properties of the vector store                                          *)
(***************************************************************************)
StoreUnchanged == vectors' = vectors /\ metadata' = metadata /\ dimensions' = dimensions
Settles(op) == ret.op = "none" /\ ret'.op = op
\* the step runs a call of op up to its await
Suspends(op) == Len(pend') = Len(pend) + 1 /\ pend'[Len(pend')].op = op

\* C1: every stored vector has length D, D is the length of the first stored
\* vector, and a storeVector whose vector length differs from D fails and
\* leaves the vectors, the metadata and D unchanged.
C1_DimensionLockIn ==
  /\ [](\A i \in 1..Len(vectors) : Len(vectors[i].v) = dimensions)
  /\ [][Suspends("storeVector") =>
          /\ dimensions' = Len(MapGet(vectors', pend'[Len(pend')].id))
          /\ dimensions # NULL => dimensions' = dimensions]_vars
  /\ [][(Settles("storeVector") /\ ~ret'.success) => StoreUnchanged /\ pend' = pend]_vars

C1_Witness ==
  /\ ret.op = "storeVector" /\ ~ret.success
  /\ ret.error = "Vector dimension mismatch"
  /\ Len(vectors) = 1 /\ dimensions = Len(vectors[1].v)

\* C5: wherever another call can run, the vector map and the metadata map
\* hold the same ids; a storeVector call that reaches its await has done the
\* dimension check and both inserts, so two first stores of different
\* lengths never both get in.
C5_NoMidWrite ==
  /\ [](/\ Len(vectors) = Len(metadata)
        /\ \A i \in 1..Len(vectors) : vectors[i].k = metadata[i].k
        /\ \A i, j \in 1..Len(vectors) : Len(vectors[i].v) = Len(vectors[j].v))
  /\ [][Suspends("storeVector") =>
          LET id == pend'[Len(pend')].id
          IN /\ MapHas(vectors', id) /\ MapHas(metadata', id)
             /\ Len(MapGet(vectors', id)) = dimensions'
             /\ MapGet(metadata', id).timestamp = now]_vars
  /\ [][Suspends("deleteVector") =>
          LET id == pend'[Len(pend')].id
          IN ~MapHas(vectors', id) /\ ~MapHas(metadata', id)]_vars

\* a first store is still suspended at its await while a store of another
\* length has failed
C5_Witness ==
  /\ Len(pend) = 1 /\ pend[1].op = "storeVector"
  /\ Len(vectors) = 1 /\ vectors[1].k = pend[1].id
  /\ ret.op = "storeVector" /\ ~ret.success /\ ret.error = "Vector dimension mismatch"

SimOf(q, i) == _calculateCosineSimilarity(q, vectors[i].v)
Eligible(q, t) == {i \in 1..Len(vectors) : SimGE(SimOf(q, i), t)}
\* position of record i among the eligible records: behind every record of
\* greater similarity and every earlier record of equal similarity
Rank(q, t, i) ==
  1 + Cardinality({j \in Eligible(q, t) : SimGT(SimOf(q, j), SimOf(q, i))})
    + Cardinality({j \in Eligible(q, t) : j < i /\ SimEQ(SimOf(q, j), SimOf(q, i))})
Found == ret.op = "findSimilar" /\ ret.success

\* C6: findSimilar returns the first min(limit, m) of the m records with
\* similarity >= threshold in descending order of similarity, equal
\* similarities in insertion order.
C6_TopK ==
  Found =>
    LET E == Eligible(ret.query, ret.threshold)
    IN /\ Len(ret.value) = Min(ret.limit, Cardinality(E))
       /\ \A n \in 1..Len(ret.value) :
            \E i \in E :
              /\ Rank(ret.query, ret.threshold, i) = n
              /\ ret.value[n] = [id |-> vectors[i].k,
                                 similarity |-> SimOf(ret.query, i),
                                 metadata |-> metadata[i].v]

\* three records of similarity 1/sqrt 2, 1, 1 and limit 2: the two records
\* of similarity 1 are returned, the one inserted first comes first
C6_Witness ==
  /\ Found /\ Len(vectors) = 3 /\ ret.limit = 2 /\ Len(ret.value) = 2
  /\ SimGT(SimOf(ret.query, 2), SimOf(ret.query, 1))
  /\ SimEQ(SimOf(ret.query, 2), SimOf(ret.query, 3))
  /\ SimGE(SimOf(ret.query, 1), ret.threshold)
  /\ ret.value[1].id = vectors[2].k /\ ret.value[2].id = vectors[3].k

\* C7: every result has similarity >= threshold, no record below the
\* threshold is returned, and a record exactly at the threshold is eligible.
C7_Threshold ==
  Found =>
    /\ \A n \in 1..Len(ret.value) : SimGE(ret.value[n].similarity, ret.threshold)
    /\ \A i \in 1..Len(vectors) :
         SimGT(ret.threshold, SimOf(ret.query, i)) =>
           \A n \in 1..Len(ret.value) : ret.value[n].id # vectors[i].k
    /\ \A i \in 1..Len(vectors) :
         (SimEQ(SimOf(ret.query, i), ret.threshold) /\ ret.limit >= Len(vectors)) =>
           \E n \in 1..Len(ret.value) : ret.value[n].id = vectors[i].k

\* threshold 0.8: a record of similarity 1/sqrt 2 is left out; threshold 1:
\* a record of similarity exactly 1 is returned
C7_Witness ==
  /\ Found /\ Len(vectors) = 2 /\ Len(ret.value) = 1 /\ ret.limit = 2
  /\ \/ /\ ret.threshold = [num |-> 4, den |-> 25]
        /\ \E i \in 1..2 : /\ SimGT(ret.threshold, SimOf(ret.query, i))
                           /\ SimOf(ret.query, i).num > 0
     \/ /\ ret.threshold = [num |-> 1, den |-> 1]
        /\ SimEQ(ret.value[1].similarity, ret.threshold)

\* C10: deleteVector on an initialized store never fails; it returns
\* deleted = (id was present), removes the id from both maps, leaves every
\* other record as it was, and a second delete of the same id returns
\* deleted:false and changes nothing.
C10_DeleteIdempotent ==
  /\ [][Suspends("deleteVector") =>
          LET id == pend'[Len(pend')].id
              Others(m) == SelectSeq(m, LAMBDA e : e.k # id)
          IN /\ initialized /\ MapHas(vectors, id) /\ pend'[Len(pend')].exists
             /\ ~MapHas(vectors', id) /\ ~MapHas(metadata', id)
             /\ vectors' = Others(vectors) /\ metadata' = Others(metadata)
             /\ Len(vectors') = Len(vectors) - 1
             /\ dimensions' = dimensions]_vars
  /\ [][Settles("deleteVector") =>
          /\ ret'.success = initialized
          /\ StoreUnchanged
          /\ initialized =>
               /\ ~MapHas(vectors, ret'.id) \/ pend' # pend
               /\ ret'.deleted = (pend' # pend)
               /\ pend' # pend => \E i \in 1..Len(pend) :
                    pend[i] = [op |-> "deleteVector", id |-> ret'.id, exists |-> TRUE]]_vars
  /\ [](\A id \in IdInputs :
          LET once == MapDelete(vectors, id)
          IN ~MapHas(once, id) /\ MapDelete(once, id) = once)

\* a delete of an id that is not (or no longer) there returned deleted:false
\* and the other record is still stored
C10_Witness ==
  /\ ret.op = "deleteVector" /\ ret.success /\ ~ret.deleted
  /\ ret.id \in Ids /\ Len(vectors) = 1 /\ vectors[1].k # ret.id

(***************************************************************************)
(* Properties of the embedding service                                     *)
(***************************************************************************)
RECURSIVE Concat(_, _)
Concat(reqs, n) == IF n = 0 THEN <<>> ELSE Concat(reqs, n - 1) \o reqs[n].input
Ceil(n, m) == (n + m - 1) \div m
BatchDone == eret.op = "generateBatchEmbeddings" /\ eret.success

\* C8: generateBatchEmbeddings sends the n texts in consecutive chunks of at
\* most m texts, one request per chunk (ceil(n/m) requests for n > m, one
\* otherwise), and returns n vectors, the k-th being the backend's embedding
\* of the k-th text as the service sends it (normalized).
C8_BatchOrder ==
  BatchDone =>
    LET n == Len(batchTexts)
        m == maxBatchSize
        sent == [k \in 1..n |-> _preprocessText(batchTexts[k])]
    IN /\ n > 0
       /\ Len(requests) = IF n > m THEN Ceil(n, m) ELSE 1
       /\ \A r \in 1..Len(requests) :
            /\ requests[r].kind = "batch"
            /\ Len(requests[r].input) >= 1 /\ Len(requests[r].input) <= m
            /\ r < Len(requests) => Len(requests[r].input) = m
       /\ Concat(requests, Len(requests)) = sent
       /\ Len(eret.value) = n
       /\ \A k \in 1..n : eret.value[k] = Emb(sent[k])

\* three texts with batch size 1: three single-item requests, output in
\* input order
C8_Witness ==
  /\ BatchDone /\ maxBatchSize = 1 /\ Len(batchTexts) = 3
  /\ batchTexts[1] # batchTexts[2] /\ batchTexts[2] # batchTexts[3]
  /\ Len(requests) = 3
  /\ eret.value = <<Emb(_preprocessText(batchTexts[1])), Emb(_preprocessText(batchTexts[2])),
                    Emb(_preprocessText(batchTexts[3]))>>

(***************************************************************************)
(* Properties of the file cache                                            *)
(***************************************************************************)
ReadSettles == rret.op = "none" /\ rret'.op = "readFile" /\ rret'.success
\* the step runs readFile up to its await: the file reader is invoked
ReaderInvoked == Len(rpend') = Len(rpend) + 1

\* C9: readFile(path) at time t returns the cached content, fromCache:true,
\* without invoking the reader exactly when the cache holds an entry with
\* t - cachedAt < TTL; otherwise the entry is evicted and the reader invoked,
\* and a successful read returns fromCache:false and stores an entry stamped
\* with the time of the fetch.
C9_CacheTTL ==
  /\ [][(ReadSettles /\ rret'.fromCache) =>
          LET entry == fileCache[rret'.path]
          IN /\ entry.has /\ now - entry.timestamp < cacheTTL
             /\ rret'.content = entry.content
             /\ rpend' = rpend /\ fileCache' = fileCache]_vars
  /\ [][ReaderInvoked =>
          LET path == rpend'[Len(rpend')].path
              entry == fileCache[path]
          IN /\ ~(entry.has /\ now - entry.timestamp < cacheTTL)
             /\ ~fileCache'[path].has
             /\ \A other \in AllPaths \ {path} : fileCache'[other] = fileCache[other]
             /\ rret' = rret]_vars
  /\ [][(ReadSettles /\ ~rret'.fromCache) =>
          /\ \E i \in 1..Len(rpend) : rpend[i].path = rret'.path /\ rpend' = Remove(rpend, i)
          /\ fileCache' = [fileCache EXCEPT ![rret'.path] =
                             [has |-> TRUE, content |-> rret'.content, timestamp |-> now]]]_vars

\* a second read one millisecond before the entry expires is served from
\* the cache
C9_Witness ==
  /\ rret.op = "readFile" /\ rret.success /\ rret.fromCache
  /\ now - fileCache[rret.path].timestamp = cacheTTL - 1

(***************************************************************************)
(* Properties of the indexing run                                          *)
(***************************************************************************)
BatchOf(k) == (k - 1) \div batchSize
InFlightSet == {k \in 1..Len(tasks) : InFlight(tasks[k])}
Rejected == {k \in 1..Len(tasks) : tasks[k].pc = "rejected"}
Completed == iret.op = "indexFiles" /\ iret.success

\* C2: no call of _indexSingleFile for a file of a later batch has started
\* while a call of an earlier batch is unsettled, so at most batchSize calls
\* are in flight at any moment
C2_BatchBarrier ==
  /\ Cardinality(InFlightSet) <= batchSize
  /\ \A k, m \in 1..Len(tasks) :
       BatchOf(m) < BatchOf(k) /\ tasks[k].pc # "notStarted" => IsSettled(tasks[m])

\* the second batch is in flight after a first batch that was full
C2_Witness ==
  /\ Len(tasks) > batchSize
  /\ InFlight(tasks[batchSize + 1])
  /\ \A m \in 1..batchSize : IsSettled(tasks[m])

\* C3: the report of a completed run has processedFiles + failedFiles =
\* totalFiles and exactly one details entry per resolved path, in their order
C3_ReportTotals ==
  Completed =>
    /\ iret.data.processedFiles + iret.data.failedFiles = iret.data.totalFiles
    /\ iret.data.totalFiles = Len(files)
    /\ Len(iret.data.details) = iret.data.totalFiles
    /\ \A k \in 1..Len(files) : iret.data.details[k].path = files[k]

\* a completed run over MaxFiles files, some indexed and some failed
C3_Witness ==
  /\ Completed
  /\ iret.data.totalFiles = MaxFiles
  /\ iret.data.processedFiles >= 1
  /\ iret.data.failedFiles >= 1

\* C4: a call that rejects (in read, embed or store) changes nothing but its
\* own outcome and the run goes on; the report of the run counts exactly the
\* rejected calls as failed, marks exactly their entries as failed with the
\* call's error message ('Unknown error' for a rejection without message) and
\* every other entry as succeeded; a run fails only before any file is started
C4_TaskStep ==
  (ipc = "processing" /\ batchAt' = batchAt /\ tasks' # tasks) =>
    /\ Len(tasks') = Len(tasks)
    /\ Cardinality({k \in 1..Len(tasks) : tasks'[k] # tasks[k]}) = 1
    /\ ipc' = "processing" /\ iret' = None /\ results' = results /\ files' = files
C4_Report ==
  /\ Completed =>
       /\ iret.data.failedFiles = Cardinality(Rejected)
       /\ iret.data.processedFiles = Len(files) - Cardinality(Rejected)
       /\ \A k \in 1..Len(tasks) :
            LET entry == iret.data.details[k]
            IN /\ entry.path = tasks[k].path
               /\ entry.success = (k \notin Rejected)
               /\ k \in Rejected =>
                    entry.error = IF tasks[k].error = <<>> THEN <<"Unknown error">>
                                  ELSE tasks[k].error
  /\ iret.op = "indexFiles" /\ ~iret.success => tasks = <<>>
StoreOps == {"storeVector", "findSimilar", "deleteVector", "getAllVectors"}
C11_Uninitialized ==
  ~initialized =>
    /\ vectors = <<>> /\ metadata = <<>> /\ dimensions = NULL
    /\ \A i \in 1..Len(pend) : pend[i].op = "initialize"
    /\ ret.op \in StoreOps => ret = Failure(ret.op, "Vector store not initialized")
C11_NotInitialized ==
  /\ []C11_Uninitialized
  /\ [][(~initialized /\ ret'.op \in StoreOps) => StoreUnchanged /\ pend' = pend]_vars
  /\ [][(Settles("initialize") /\ ~ret'.success) => initialized' = initialized]_vars

\* a storeVector call on a store that is not initialized was refused
C11_Witness ==
  /\ ~initialized
  /\ ret = Failure("storeVector", "Vector store not initialized")

\* C12: when the path resolver reports failure the run fails as a whole: it
\* is over (no second resolution), no call of _indexSingleFile was started,
\* there is no report, and the step changed neither the file cache nor what
\* the memory engine holds
IndexFailed == iret.op = "indexFiles" /\ ~iret.success
C12_Aborted ==
  resolution = "failed" =>
    /\ IndexFailed
    /\ iret.error = <<"Failed to search for files matching", "Failed to match files">>
    /\ ipc = "idle"
    /\ files = <<>> /\ tasks = <<>> /\ settledOrder = <<>>
    /\ results = NoReport
C12_ResolveFailure ==
  /\ []C12_Aborted
  /\ [][resolution' = "failed" /\ resolution # "failed" =>
          /\ ipc = "resolving"
          /\ stored' = stored /\ fileCache' = fileCache]_vars

\* the resolver failed in a run that came after a run that indexed a file
C12_Witness ==
  /\ resolution = "failed" /\ IndexFailed
  /\ \E p \in AllPaths : fileCache[p].has
  /\ stored # {}

\* C13: a call of _indexSingleFile goes read -> embed -> store: it asks for
\* one embedding, of the content read, and only after the read succeeded; it
\* offers {path, content, embedding} under 'file_content:<path>' only after
\* the embedding arrived; it is fulfilled, and reported as succeeded, exactly
\* when all three steps succeeded, and a failed step ends the call
StepOrder ==
  {<<"notStarted", "readHit">>, <<"notStarted", "fetch">>, <<"readHit", "embed">>,
   <<"fetch", "embed">>, <<"fetch", "rejected">>, <<"embed", "store">>,
   <<"embed", "rejected">>, <<"store", "fulfilled">>, <<"store", "rejected">>}
StoredRecord(task) ==
  [id |-> <<"file_content", task.path>>, path |-> task.path, content |-> task.content,
   embedding |-> Emb(_preprocessText(task.content))]
FailedAt(task, step) == task.pc = "rejected" /\ Len(task.error) > 0 /\ task.error[1] = step
C13_TaskState(task) ==
  /\ task.pc \in {"notStarted", "fetch", "readHit"} => task.requested = 0 /\ task.embedding = <<>>
  /\ task.pc = "embed" => task.requested = 1 /\ task.content # <<>> /\ task.embedding = <<>>
  /\ task.pc \in {"store", "fulfilled"} =>
       task.requested = 1 /\ task.embedding = Emb(_preprocessText(task.content))
  /\ task.pc = "fulfilled" => StoredRecord(task) \in stored
  /\ task.pc = "rejected" => task.requested <= 1
  /\ FailedAt(task, "Failed to read file") => task.requested = 0 /\ task.embedding = <<>>
  /\ FailedAt(task, "Failed to generate embedding") => task.embedding = <<>>
C13_Steps ==
  /\ \A k \in 1..Len(tasks) : C13_TaskState(tasks[k])
  /\ Completed =>
       \A k \in 1..Len(tasks) : iret.data.details[k].success = (tasks[k].pc = "fulfilled")
C13_TaskStep ==
  (files' = files /\ Len(tasks') = Len(tasks)) =>
    /\ \A k \in 1..Len(tasks) :
         tasks'[k].pc # tasks[k].pc => <<tasks[k].pc, tasks'[k].pc>> \in StepOrder
    /\ (stored' # stored /\ ipc = "processing") =>
         \E k \in 1..Len(tasks) :
           /\ tasks[k].pc = "store" /\ tasks'[k].pc = "fulfilled"
           /\ stored' = stored \cup {StoredRecord(tasks[k])}
C13_ReadEmbedStore == []C13_Steps /\ [][C13_TaskStep]_vars

\* a completed run with one file indexed, one failed at its embedding and
\* one failed at its read
C13_Witness ==
  /\ Completed /\ Len(tasks) = 3
  /\ tasks[1].pc = "fulfilled" /\ StoredRecord(tasks[1]) \in stored
  /\ FailedAt(tasks[2], "Failed to generate embedding") /\ tasks[2].requested = 1
  /\ FailedAt(tasks[3], "Failed to read file")

\* C14: the details of the report are the outcomes of the calls in the
\* order of the resolved file list, batch after batch, whatever the order
\* the calls settled in
C14_DetailsOrder ==
  /\ Len(results.details) = Min(batchAt, Len(files))
  /\ \A k \in 1..Len(results.details) :
       /\ results.details[k].path = files[k]
       /\ results.details[k].success = (tasks[k].pc = "fulfilled")
       /\ results.details[k].size = (IF tasks[k].pc = "fulfilled" THEN Len(tasks[k].content) ELSE 0)
  /\ Completed => iret.data = results

\* a completed run whose second file settled first, with another outcome
\* than the first file
C14_Witness ==
  /\ Completed
  /\ Len(settledOrder) >= 2 /\ settledOrder[1] = 2 /\ settledOrder[2] = 1
  /\ iret.data.details[1].path = files[1]
  /\ iret.data.details[1].success /\ ~iret.data.details[2].success

\* C15: every call of the embedding service that has a request in flight
\* ends, whatever the backend does; a request the timer aborted fails the
\* call with the timeout error and no further request is sent
EmbCalls == {"initialize", "generateEmbedding", "generateBatchEmbeddings"}
TimedOut == requests # <<>> /\ requests[Len(requests)].response = "timeout"
C15_TimeoutFails ==
  /\ \A r \in 1..Len(requests) :
       requests[r].response = "pending" => r = Len(requests) /\ epc # "idle"
  /\ epc # "idle" => requests # <<>> /\ requests[Len(requests)].response = "pending"
  /\ TimedOut =>
       /\ epc = "idle" /\ eret.op \in EmbCalls /\ ~eret.success
       /\ eret.error[Len(eret.error)] = "API request timed out"
C15_RequestsEnd == []C15_TimeoutFails /\ ((epc # "idle") ~> (epc = "idle"))

\* the second chunk of a batch was aborted by the timer
C15_Witness ==
  /\ TimedOut /\ Len(requests) = 2 /\ requests[1].response = "ok"
  /\ eret = Failure("generateBatchEmbeddings",
                    <<"Failed to generate batch embeddings", "API request timed out">>)

\* C16: EmbeddingService.initialize() without a credential fails and sends
\* nothing; with one it sends exactly one probe, and the service becomes
\* initialized exactly when the probe's answer is an array, else the call
\* fails and the service stays as it was; on an initialized service the call
\* succeeds at once, sends nothing and changes nothing
InitSettled == eret.op = "initialize"
OneProbe == Len(requests) = 1 /\ requests[1].kind = "probe" /\ requests[1].input = <<ProbeText>>
C16_Outcome ==
  /\ \A r \in 1..Len(requests) : requests[r].kind = "probe" => apiKey # "" /\ OneProbe
  /\ epc = "initialize" => OneProbe /\ ~embInitialized
  /\ InitSettled /\ apiKey = "" =>
       /\ eret = Failure("initialize", <<"Hugging Face API key not configured">>)
       /\ requests = <<>> /\ ~embInitialized
  /\ InitSettled /\ apiKey # "" /\ requests # <<>> =>
       /\ OneProbe
       /\ eret.success = (requests[1].response = "ok")
       /\ embInitialized = eret.success
  /\ InitSettled /\ apiKey # "" /\ requests = <<>> => eret.success /\ embInitialized
C16_Step ==
  /\ embInitialized' # embInitialized =>
       /\ embInitialized' /\ epc = "initialize"
       /\ requests'[1].response = "ok" /\ eret'.op = "initialize" /\ eret'.success
  /\ (embInitialized /\ eret.op = "none" /\ eret'.op = "initialize") =>
       /\ eret'.success
       /\ UNCHANGED <<embInitialized, epc, requests, batchTexts, batchI, batchResults>>
  /\ (~embInitialized /\ apiKey # "" /\ epc = "idle" /\ epc' = "initialize") =>
       requests' = <<Request("probe", <<ProbeText>>)>>
C16_Initialize == []C16_Outcome /\ [][C16_Step]_vars

\* the probe was answered with a 2xx body that is not an array
C16_Witness ==
  /\ InitSettled /\ ~eret.success /\ ~embInitialized
  /\ OneProbe /\ requests[1].response = "malformed"
  /\ eret.error = <<"Embedding service initialization failed",
                    "Invalid response from Hugging Face API">>

\* C17: generateEmbedding fails and sends nothing when the service is not
\* initialized or the text is empty; what it sends is one request holding
\* the normalized form of its non-empty text
RECURSIVE NonSpace(_)
NonSpace(x) ==
  IF x = <<>> THEN <<>>
  ELSE (IF IsSpace(Head(x)) THEN <<>> ELSE <<Head(x)>>) \o NonSpace(Tail(x))
IsNormalized(y) ==
  /\ Len(y) <= maxTextLength
  /\ y # <<>> => ~IsSpace(y[1]) /\ ~IsSpace(y[Len(y)])
  /\ \A i \in 1..Len(y) : IsSpace(y[i]) => y[i] = " "
  /\ \A i \in 1..(Len(y) - 1) : ~(IsSpace(y[i]) /\ IsSpace(y[i + 1]))
\* y has the words of the first maxTextLength characters of x
SameWords(x, y) ==
  LET head == SubSeq(x, 1, Min(maxTextLength, Len(x)))
  IN /\ NonSpace(y) = NonSpace(head)
     /\ Len(y) <= Len(head)
C17_Guards ==
  /\ ~embInitialized =>
       /\ epc \in {"idle", "initialize"}
       /\ \A r \in 1..Len(requests) : requests[r].kind = "probe"
  /\ eret.op = "generateEmbedding" /\ (~embInitialized \/ textArg = <<>>) =>
       ~eret.success /\ requests = <<>>
  /\ eret.op = "generateEmbedding" /\ ~embInitialized =>
       eret.error = <<"Embedding service not initialized">>
  /\ eret.op = "generateEmbedding" /\ embInitialized /\ textArg = <<>> =>
       eret.error = <<"Invalid input">>
  /\ (epc = "generateEmbedding" \/ (eret.op = "generateEmbedding" /\ requests # <<>>)) =>
       /\ embInitialized /\ textArg # <<>>
       /\ Len(requests) = 1 /\ requests[1].kind = "single"
       /\ Len(requests[1].input) = 1
       /\ IsNormalized(requests[1].input[1])
       /\ SameWords(textArg, requests[1].input[1])
C17_Step ==
  (epc = "idle" /\ eret.op = "none" /\ eret'.op = "generateEmbedding") =>
    ~eret'.success /\ requests' = requests /\ UNCHANGED <<embInitialized, epc>>
C17_NoRequestOnBadCall == []C17_Guards /\ [][C17_Step]_vars

\* a text of whitespace only is a non-empty string: it is sent, as ""
C17_Witness ==
  /\ epc = "generateEmbedding" /\ textArg = BlankText
  /\ requests = <<Request("single", <<<<>>>>)>>

\* C18: _preprocessText gives a string of at most maxTextLength characters
\* without leading, trailing or consecutive whitespace, holding the words of
\* the truncated input, and applied to its own result it changes nothing
C18_Normal ==
  applied >= 1 => IsNormalized(normalized) /\ SameWords(textArg, normalized)
C18_Idempotent == []C18_Normal /\ [][applied = 1 => normalized' = normalized]_vars

\* a string longer than maxTextLength that starts with whitespace and is
\* cut behind whitespace has been normalized twice
C18_Witness ==
  /\ applied = 2
  /\ Len(textArg) > maxTextLength
  /\ IsSpace(textArg[1]) /\ IsSpace(textArg[maxTextLength]) /\ ~IsSpace(textArg[maxTextLength + 1])
  /\ normalized # <<>> /\ Len(normalized) < maxTextLength

\* C19: whatever the persistence hook did, the storeVector call that awaited
\* it returns {id, success:true} and the deleteVector call returns success
\* with deleted:true, and neither changes the maps on its way out; the
\* record a storeVector call has put in memory is returned by getAllVectors
\* and by findSimilar from the moment the hook is awaited
ResumeOf(op) == Len(pend') = Len(pend) - 1 /\ ret'.op = op
Awaited(op) == {i \in 1..Len(pend) : pend[i].op = op}
C19_Resume ==
  /\ ResumeOf("storeVector") =>
       /\ ret'.success /\ StoreUnchanged
       /\ \E i \in Awaited("storeVector") : ret'.id = pend[i].id /\ pend' = Remove(pend, i)
  /\ ResumeOf("deleteVector") =>
       /\ ret'.success /\ ret'.deleted /\ StoreUnchanged
       /\ \E i \in Awaited("deleteVector") : ret'.id = pend[i].id /\ pend' = Remove(pend, i)
C19_Visible ==
  Suspends("storeVector") =>
    LET id == pend'[Len(pend')].id
        vector == MapGet(vectors', id)
        all == AllVectors(vectors', metadata', Len(vectors'))
        similar == FindSimilarResult(vectors', metadata', vector, Len(vectors'),
                                     [num |-> 0, den |-> 1])
    IN /\ \E n \in 1..Len(all) : all[n].id = id /\ all[n].vector = vector
       /\ \E n \in 1..Len(similar) : similar[n].id = id
C19_HookFailureSwallowed == [][C19_Resume]_vars /\ [][C19_Visible]_vars

\* the hook failed under a storeVector call that returned success; the
\* record is in memory
C19_Witness ==
  /\ ret.op = "storeVector" /\ ret.success /\ ret.hook = "failed"
  /\ MapHas(vectors, ret.id) /\ MapHas(metadata, ret.id)

(***************************************************************************)
(* The top-level calls                                                     *)
(***************************************************************************)
\* a success payload, or a failure with the fields success and error; the
\* third field of a failure is metadata in the tools and timestamp in
\* executeTask, and is left open here
Structured(value) == value.success \/ {"success", "error"} \subseteq DOMAIN value

\* C20: every top-level call (executeTask for any task value and any
\* operation, ViewTool.execute, GlobTool.execute) completes by returning a
\* success payload or a structured failure {success: false, error, ...}; it
\* never throws or rejects, whatever the input and whatever the collaborators do
C20_NeverFaults ==
  tret.settled # "none" => tret.settled = "returned" /\ Structured(tret.value)

(***************************************************************************)
(* indexFiles without its collaborators                                    *)
(***************************************************************************)
\* C21: indexFiles fails with a missing-dependency error when the embedding
\* service or the memory engine is not wired in, and it fails before the
\* pattern is resolved: the run resolves no path, reads no file, asks for no
\* embedding and stores nothing (a call without a pattern is refused for
\* that, before the collaborators are looked at)
MissingDependency ==
  IF ~embeddingService
  THEN <<"Embedding service required for file indexing">>
  ELSE <<"Memory engine required for file indexing">>
RECURSIVE SumOver(_, _)
SumOver(f, S) ==
  IF S = {} THEN 0
  ELSE LET i == CHOOSE j \in S : TRUE IN f[i] + SumOver(f, S \ {i})
Dot(a, b) == SumOver([i \in 1..Len(a) |-> a[i] * b[i]], 1..Len(a))
Sign(x) == IF x > 0 THEN 1 ELSE IF x < 0 THEN -1 ELSE 0

C23_Step ==
  Suspends("storeVector") /\ MapHas(vectors, pend'[Len(pend')].id) =>
    LET c == pend'[Len(pend')]
        At(m) == {j \in 1..Len(m) : m[j].k = c.id}
    IN /\ Len(vectors') = Len(vectors) /\ Len(metadata') = Len(metadata)
       /\ Cardinality(At(vectors')) = 1 /\ Cardinality(At(metadata')) = 1
       /\ \A j \in At(vectors') : vectors'[j].v = c.vector
       /\ \A j \in At(metadata') :
            metadata'[j].v = [meta |-> c.meta, timestamp |-> now]
       /\ \A j \in 1..Len(vectors) \ At(vectors) : vectors'[j] = vectors[j]
       /\ \A j \in 1..Len(metadata) \ At(metadata) : metadata'[j] = metadata[j]
C23_LastWriteWins == [][C23_Step]_vars

\* a call stored under the first of two ids after the second id was
\* inserted, and the record of the first id is the one of this call
C23_Witness ==
  /\ Len(pend) = 1 /\ pend[1].op = "storeVector"
  /\ Len(vectors) = 2 /\ vectors[1].k = pend[1].id
  /\ vectors[1].v = pend[1].vector /\ metadata[1].v.meta = pend[1].meta

\* C24: findSimilar checks the query against D and reads only: with D fixed
\* a query of another length fails; with D not fixed every non-empty query
\* is accepted and finds nothing; an empty query fails; and whether it fails
\* or not, the call leaves vectors, metadata and D as they were (a query
\* never fixes D)
C24_Call(queryVector) ==
  /\ vectors' = vectors /\ metadata' = metadata /\ dimensions' = dimensions
  /\ pend' = pend /\ initialized' = initialized
  /\ initialized =>
       /\ queryVector = <<>> => ~ret'.success
       /\ dimensions # NULL /\ Len(queryVector) # dimensions => ~ret'.success
       /\ dimensions = NULL /\ queryVector # <<>> => ret'.success /\ ret'.value = <<>>
C24_ReadOnlyQuery ==
  [][\A q \in VectorInputs, limit \in ConcurrentLimits, threshold \in ConcurrentThresholds :
       ret'.op = "findSimilar" /\ FindSimilar(q, limit, threshold) => C24_Call(q)]_vars

\* a query was accepted on an initialized store before any vector was
\* stored, and no dimension is fixed after it
C24_Witness ==
  /\ initialized /\ dimensions = NULL
  /\ ret.op = "findSimilar" /\ ret.success /\ ret.value = <<>> /\ Len(ret.query) = 2

\* C25: persisting the report is best-effort: when the memory engine rejects
\* the report, indexFiles returns the success result, with the report (its
\* counts and its details), that it returns when the engine takes the report
C25_Persist ==
  ipc = "persisting" /\ ipc' # ipc =>
    /\ ipc' = "idle"
    /\ results' = results
    /\ iret' = [op |-> "indexFiles", success |-> TRUE, data |-> results]
    /\ stored \subseteq stored'
    /\ \A r \in stored' \ stored : r.id = <<"file_indexing", "*">>
C26_Read(outcome, size) ==
  /\ tret'.settled = "returned"
  /\ outcome.settled = "rejected" => ~tret'.value.success
  /\ outcome.settled = "fulfilled" /\ outcome.defined /\ size > call.maxSize =>
       ~tret'.value.success
  /\ tret'.value.success => tret'.value.data.metadata.size <= call.maxSize
C26_SizeLimit ==
  [][\A outcome \in Outcomes, size \in ContentSizes :
       ViewResume(outcome, size) => C26_Read(outcome, size)]_vars

\* C27: no path GlobTool.execute returns matches a default ignore pattern or
\* an ignore pattern of the caller, also when the caller passes its own
\* ignorePatterns: the caller's patterns come on top of the defaults
C27_Ignored(patterns) ==
  tret'.settled = "returned" /\ tret'.value.success =>
    \A n \in 1..Len(tret'.value.data), ignorePattern \in patterns :
      ~(ignorePattern = "*" \/ ignorePattern = tret'.value.data[n])
C27_IgnoreRespected ==
  [][tpc = "glob" /\ tpc' = "idle" =>
       C27_Ignored(defaultIgnorePatterns \cup call.options.patterns)]_vars

\* C28: once the first stored vector has fixed D, D never changes: no later
\* storeVector, failing or not, no deleteVector, findSimilar or
\* getAllVectors changes it, and it stays after every record was deleted: a
\* vector of another length is refused on the emptied store too
C28_Refused(vector) ==
  initialized /\ dimensions # NULL /\ vector # <<>> /\ Len(vector) # dimensions =>
    \/ /\ ret' = [op |-> "storeVector", success |-> FALSE, error |-> "Vector dimension mismatch"]
       /\ vectors' = vectors /\ metadata' = metadata /\ pend' = pend
    \/ \A id \in Ids, meta \in Metas : ~StoreVector(id, vector, meta)
C28_DimensionFixed ==
  /\ [](dimensions = NULL => vectors = <<>>)
  /\ [][dimensions # NULL => dimensions' = dimensions]_vars
  /\ [][dimensions' # dimensions =>
          /\ Len(pend') = Len(pend) + 1 /\ pend'[Len(pend')].op = "storeVector"
          /\ dimensions' = Len(pend'[Len(pend')].vector)]_vars
  /\ [][\A vector \in VectorInputs : C28_Refused(vector)]_vars

\* every record was deleted, D is still fixed, and a vector of another
\* length has just been refused
C28_Witness ==
  /\ vectors = <<>> /\ dimensions = 1 /\ pend = <<>>
  /\ ret = [op |-> "storeVector", success |-> FALSE, error |-> "Vector dimension mismatch"]

(***************************************************************************)
(* The course of an indexing run                                           *)
(***************************************************************************)
\* C29: provided the path resolver returns and every read, embedding request
\* and store settles, a run of indexFiles goes from resolving through the
\* batches 1..N, each once and in order, to the persisting of the aggregated
\* report and ends with returning the report; no phase is entered again, no
\* batch is processed twice and none is left out
C29_Phases ==
  ipc' # ipc =>
    \/ ipc = "idle" /\ ipc' = "resolving"
    \/ ipc = "resolving" /\ ipc' = "processing" /\ batchAt' = 0 /\ files' # <<>>
    \/ ipc = "resolving" /\ ipc' = "persisting" /\ files' = <<>>
    \/ ipc = "resolving" /\ ipc' = "idle" /\ ~iret'.success
    \/ ipc = "processing" /\ ipc' = "persisting"
    \/ ipc = "persisting" /\ ipc' = "idle" /\ iret'.success /\ iret'.data = results
C29_Join ==
  ipc = "processing" /\ results' # results =>
    LET next == batchAt + batchSize
    IN /\ \A k \in 1..Len(tasks) : k <= next => IsSettled(tasks[k]) /\ tasks'[k] = tasks[k]
       /\ batchAt' = next
       /\ Len(results'.details) = Min(next, Len(files))
       /\ ipc' = IF next < Len(files) THEN "processing" ELSE "persisting"
       /\ \A k \in 1..Len(tasks) :
            /\ next < k /\ k <= next + batchSize =>
                 tasks[k].pc = "notStarted" /\ tasks'[k].pc # "notStarted"
            /\ next + batchSize < k => tasks'[k].pc = "notStarted"
C29_Once ==
  Len(tasks') = Len(tasks) =>
    \A k \in 1..Len(tasks) :
      /\ tasks[k].pc # "notStarted" => tasks'[k].pc # "notStarted"
      /\ IsSettled(tasks[k]) => tasks'[k] = tasks[k]
C29_Position ==
  /\ ipc = "processing" =>
       /\ batchAt % batchSize = 0 /\ batchAt < Len(files)
       /\ Len(results.details) = batchAt
  /\ ipc = "persisting" =>
       /\ \A k \in 1..Len(tasks) : IsSettled(tasks[k])
       /\ Len(results.details) = Len(files)
RequestFailed(request) == request.response \in {"error", "timeout"}

\* C31: the embedding service never retries and never goes on after a
\* failure: generateEmbedding sends one request per valid call; the chunk
\* requests of generateBatchEmbeddings go out one after the other, request
\* k+1 only after request k returned its vectors; when a request fails or
\* times out the call fails as a whole, with no vector of an earlier chunk
\* in its outcome, and that step sends nothing: neither the failed request
\* again nor the request of a later chunk
C31_Log ==
  /\ \A k \in 1..Len(requests) :
       /\ k < Len(requests) => requests[k].response = "ok" /\ requests[k].kind = "batch"
       /\ requests[k].kind \in {"single", "probe"} => Len(requests) = 1
       /\ requests[k].kind = "batch" =>
            /\ k <= Ceil(Len(batchTexts), maxBatchSize)
            /\ Len(batchTexts) > maxBatchSize =>
                 \A j \in 1..Len(requests[k].input) :
                   requests[k].input[j] = _preprocessText(batchTexts[(k - 1) * maxBatchSize + j])
  /\ epc = "idle" => \A k \in 1..Len(requests) : requests[k].response # "pending"
  /\ epc # "idle" => requests # <<>> /\ requests[Len(requests)].response = "pending"
C31_Failure ==
  (requests # <<>> /\ requests' # <<>> /\ requests' # requests /\ RequestFailed(requests'[Len(requests')])) =>
    /\ Len(requests') = Len(requests)
    /\ \A k \in 1..(Len(requests) - 1) : requests'[k] = requests[k]
    /\ epc' = "idle"
    /\ ~eret'.success /\ DOMAIN eret' = {"op", "success", "error"}
    /\ eret'.op = IF epc \in {"chunk", "batch"} THEN "generateBatchEmbeddings" ELSE epc
C31_Single ==
  (epc # "generateEmbedding" /\ epc' = "generateEmbedding") =>
    /\ requests = <<>> /\ Len(requests') = 1 /\ requests'[1].kind = "single"
C31_NoRetry ==
  /\ []C31_Log
  /\ [][C31_Failure]_vars
  /\ [][C31_Single]_vars

\* of three chunks the second timed out: the call failed after two requests
\* and the third chunk was never asked for
C31_Witness ==
  /\ eret.op = "generateBatchEmbeddings" /\ ~eret.success
  /\ maxBatchSize = 1 /\ Len(batchTexts) = 3
  /\ Len(requests) = 2 /\ requests[1].response = "ok" /\ requests[2].response = "timeout"

(***************************************************************************)
(* Failed reads and the cache, in sequential histories                     *)
(***************************************************************************)
FetchFailed(outcome) ==
  outcome.op = "readFile" /\ ~outcome.success /\ outcome.error[1] = "Failed to read file"

\* C32: in a sequential history a readFile whose fetch fails writes nothing
\* into the cache: the entry of its path, if it had expired, was evicted
\* before the fetch, so after the failure the cache holds no entry of the
\* path, none appears until a fetch of the path succeeds, and the next
\* readFile of the path invokes the reader again
C32_NoEntry ==
  /\ FetchFailed(rret) => ~fileCache[rret.error[2]].has
  /\ \A i \in 1..Len(rpend) : ~fileCache[rpend[i].path].has
C32_Fails ==
  (rret.op = "none" /\ FetchFailed(rret')) =>
    /\ fileCache' = fileCache
    /\ rpend = <<[path |-> rret'.error[2]]>> /\ rpend' = <<>>
C32_Appears ==
  \A path \in AllPaths :
    (~fileCache[path].has /\ fileCache'[path].has) =>
      /\ rpend = <<[path |-> path]>>
      /\ rret'.op = "readFile" /\ rret'.success /\ ~rret'.fromCache /\ rret'.path = path
C32_NextRead ==
  \A path \in Paths :
    (SequentialRead(path) /\ ~fileCache[path].has) =>
      rpend' = <<[path |-> path]>> /\ rret' = rret
C32_NoWriteOnFailure ==
  /\ []C32_NoEntry
  /\ [][C32_Fails /\ C32_Appears /\ C32_NextRead]_vars

\* the path was cached, its entry expired, and the fetch of the next read
\* failed: the cache holds nothing of the path
C32_Witness ==
  /\ FetchFailed(rret) /\ rret.error[2] = "p"
  /\ ~fileCache["p"].has /\ now >= cacheTTL /\ rpend = <<>>

(***************************************************************************)
(* Absolute expiration                                                     *)
(***************************************************************************)
\* C33: a hit never extends the life of an entry: the time an entry was
\* cached at is written only when a fetch of its path completes (and is the
\* time of that completion), a hit leaves the whole cache as it is, and a
\* readFile of a path at or after cachedAt + TTL is a miss: it evicts the
\* entry and invokes the reader, however often the entry was hit before
C33_Stamped ==
  \A path \in AllPaths :
    (fileCache'[path].has /\ fileCache'[path].timestamp # fileCache[path].timestamp) =>
      /\ \E i \in 1..Len(rpend) : rpend[i].path = path /\ rpend' = Remove(rpend, i)
      /\ rret'.op = "readFile" /\ rret'.success /\ ~rret'.fromCache /\ rret'.path = path
      /\ fileCache'[path].timestamp = now
C33_Hit ==
  (rret.op = "none" /\ rret'.op = "readFile" /\ rret'.success /\ rret'.fromCache) =>
    /\ fileCache' = fileCache
    /\ now < fileCache[rret'.path].timestamp + cacheTTL
C33_Expired ==
  \A path \in Paths :
    (ReadFile(path) /\ fileCache[path].has /\ now >= fileCache[path].timestamp + cacheTTL) =>
      /\ rpend' = Append(rpend, [path |-> path])
      /\ ~fileCache'[path].has
      /\ rret' = rret
C33_AbsoluteExpiration ==
  /\ [](\A path \in AllPaths : fileCache[path].has => fileCache[path].timestamp <= now)
  /\ [][C33_Stamped /\ C33_Hit /\ C33_Expired]_vars

\* the clock has moved by TTL - 1 and by 1, and a read of p at the instant
\* TTL has missed while the entry q, cached after the first move, is still
\* alive
C33_Witness ==
  /\ now = cacheTTL /\ ticks = 2
  /\ rpend = <<[path |-> "p"]>> /\ ~fileCache["p"].has
  /\ fileCache["q"].has /\ fileCache["q"].timestamp = cacheTTL - 1

(***************************************************************************)
(* Iteration order of the store                                            *)
(***************************************************************************)
KeyOrder(m) == [i \in 1..Len(m) |-> m[i].k]
Position(order, id) == CHOOSE i \in 1..Len(order) : order[i] = id
IdsOf(value) == [i \in 1..Len(value) |-> value[i].id]

\* C34: the place of a record among equally similar results of findSimilar
\* is the place of its id in the iteration order of the store, which is the
\* order of the ids' first insertion since they were last absent: storing
\* under an id the store holds leaves the order as it is, storing under an
\* absent id puts it behind every id held, deleting takes the id out and
\* leaves the others in their order; getAllVectors lists the records in
\* that order
C34_Stores ==
  Suspends("storeVector") =>
    LET id == pend'[Len(pend')].id
        order == KeyOrder(vectors)
        held == \E i \in 1..Len(order) : order[i] = id
    IN KeyOrder(vectors') = IF held THEN order ELSE Append(order, id)
C34_Deletes ==
  Suspends("deleteVector") =>
    LET id == pend'[Len(pend')].id
        order == KeyOrder(vectors)
    IN /\ \E i \in 1..Len(order) : order[i] = id
       /\ KeyOrder(vectors') = Remove(order, Position(order, id))
C34_Others ==
  KeyOrder(vectors') # KeyOrder(vectors) => Suspends("storeVector") \/ Suspends("deleteVector")
C34_Listed ==
  /\ ret.op = "getAllVectors" /\ ret.success => IdsOf(ret.value) = KeyOrder(vectors)
  /\ ret.op = "findSimilar" /\ ret.success =>
       \A i, j \in 1..Len(ret.value) :
         i < j /\ SimEQ(ret.value[i].similarity, ret.value[j].similarity) =>
           Position(KeyOrder(vectors), ret.value[i].id)
             < Position(KeyOrder(vectors), ret.value[j].id)
C34_IterationOrder ==
  /\ [](KeyOrder(metadata) = KeyOrder(vectors) /\ C34_Listed)
  /\ [][C34_Stores /\ C34_Deletes /\ C34_Others]_vars

\* b was stored before a: of two equally similar records findSimilar lists
\* b first
C34_Witness ==
  /\ ret.op = "findSimilar" /\ ret.success
  /\ KeyOrder(vectors) = <<"b", "a">>
  /\ IdsOf(ret.value) = <<"b", "a">>
  /\ SimEQ(ret.value[1].similarity, ret.value[2].similarity)

=============================================================================
